---- MODULE Spec2Model ----
(***************************************************************************)
(* WorldMap: the signup wizard (app/signup/page.tsx, two revisions), the   *)
(* slug normalisation (page.tsx normalizeSlug, lib/auth.ts slugify) and    *)
(* the MapboxMap marker synchronisation (components/MapboxMap.tsx, two     *)
(* revisions).                                                             *)
(*                                                                         *)
(* rev = 1 : src/worldmap/app/signup/page.tsx and                          *)
(*           src/worldmap/components/MapboxMap.tsx                         *)
(* rev = 2 : src/unnamed/part_000 (signup page with descriptions and       *)
(*           handleBack) and src/unnamed/part_005 (MapboxMap with marker   *)
(*           reconciliation by id)                                         *)
(***************************************************************************)
EXTENDS Integers, Sequences, FiniteSets, TLC

VARIABLES
    rev,            \* which revision of the component is running (1 or 2)
    \* ---- slug normalisation harness
    nfInput,        \* the raw text handed to normalizeSlug / slugify
    nfOnce,         \* normalizeSlug(nfInput)
    nfTwice,        \* normalizeSlug(normalizeSlug(nfInput))
    nfPc,           \* "raw" | "once" | "twice"
    \* ---- signup wizard: component state (useState)
    step, loading, error, uid,
    email, password,
    fullName, shareSlug, homeCity, avatarFile,
    memories,
    slugStatus,
    \* ---- signup wizard: asynchronous flows
    checks,         \* checkSlug invocations still awaiting (closures)
    slugWrittenBy,  \* which checkSlug invocation wrote slugStatus last
    handler,        \* the step handler in flight (closure and position)
    \* ---- backend (supabase) as seen by the wizard
    profiles, places, userPlaces, memoryRows, storageObjs, mediaRows,
    callLog,        \* remote calls issued by the handler in flight or last run
    redirected,     \* router.push target, None until handleFinish redirects
    \* ---- MapboxMap
    mapRef, pins, activePinId, flyToActive,
    markersRef, elsRef, mapMarkers,
    zoom, camera,
    lastOps,        \* map-library calls made by the effects of the last render
    \* ---- PublicProfileClient: component state (useState)
    pgPins,         \* pinState, as the list of the place ids of the pins
    pgActive,       \* activePinId, None for undefined
    pgCards,        \* memories: the ids of the memory rows of the cards shown
    pgCardsFor,     \* the place the cards shown were fetched for, None if none
    \* ---- PublicProfileClient: asynchronous flows
    pgFetches,      \* places with a fetchMemoriesForPin still awaiting
    pgFlow,         \* the handler in flight (closure and position)
    pgClicks,       \* number of user gestures on the page so far
    \* ---- two clients running ensurePlace
    epClients,      \* per client: position, key, id returned, error met
    epUnique        \* the places table has a unique index on normalized_key

wizVars == <<step, loading, error, uid, email, password, fullName, shareSlug,
             homeCity, avatarFile, memories, slugStatus, checks,
             slugWrittenBy, handler, profiles, places, userPlaces,
             memoryRows, storageObjs, mediaRows, callLog, redirected>>

nfVars == <<nfInput, nfOnce, nfTwice, nfPc>>

mapVars == <<mapRef, pins, activePinId, flyToActive, markersRef, elsRef,
             mapMarkers, zoom, camera, lastOps>>

pageVars ==
    <<pgPins, pgActive, pgCards, pgCardsFor, pgFetches, pgFlow, pgClicks>>

epVars == <<epClients, epUnique>>

vars == <<rev, nfVars, wizVars, mapVars, pageVars, epVars>>

None == "none"

Min(a, b) == IF a < b THEN a ELSE b

Max(a, b) == IF a > b THEN a ELSE b

SeqToSet(s) == {s[i] : i \in DOMAIN s}

(***************************************************************************)
(* Strings are sequences of one-character strings.                         *)
(***************************************************************************)
\* String.prototype.toLowerCase on one character of the alphabet used here
LowerChar(c) ==
    IF c = "A" THEN "a"
    ELSE IF c = "B" THEN "b"
    ELSE IF c = "C" THEN "c"
    ELSE c

\* the complement of the class [^a-z0-9]
IsAlnum(c) == c \in {"a", "b", "c", "d", "0", "1"}

\* the positions of s that hold a character other than c
Others(s, c) == {i \in DOMAIN s : s[i] # c}

\* s without the characters c at its start and at its end
StripBoth(s, c) ==
    LET keep == Others(s, c) IN
    IF keep = {} THEN <<>>
    ELSE SubSeq(s, CHOOSE i \in keep : \A j \in keep : i <= j,
                   CHOOSE i \in keep : \A j \in keep : i >= j)

\* String.prototype.trim
Trim(s) == StripBoth(s, " ")

ToLowerCase(s) == [i \in DOMAIN s |-> LowerChar(s[i])]

\* .replace(/[^a-z0-9]+/g, "-"): each maximal run of other characters
\* becomes one hyphen
ReplaceRuns(s) ==
    LET StartsRunOrChar(i) == IsAlnum(s[i]) \/ i = 1 \/ IsAlnum(s[i - 1])
        kept == SelectSeq([i \in DOMAIN s |-> i], StartsRunOrChar)
    IN  [k \in DOMAIN kept |-> IF IsAlnum(s[kept[k]]) THEN s[kept[k]] ELSE "-"]

\* .replace(/(^-+)|(-+$)/g, "")
StripHyphens(s) == StripBoth(s, "-")

\* .slice(0, n)
Slice(s, n) == SubSeq(s, 1, Min(n, Len(s)))

\* the argument of .slice(0, 60)
SlugMaxLen == 60

\* page.tsx normalizeSlug
normalizeSlug(input) ==
    Slice(StripHyphens(ReplaceRuns(ToLowerCase(Trim(input)))), SlugMaxLen)

\* lib/auth.ts slugify
slugify(input) ==
    Slice(StripHyphens(ReplaceRuns(ToLowerCase(Trim(input)))), SlugMaxLen)

\* normalizedSlug.length < 3 in checkSlug and canGoNext
MinSlugLen == 3

(***************************************************************************)
(* Inputs of the normalisation harness: texts made of at most MaxRuns runs *)
(* of one character, a run being short or as long as the truncation needs. *)
(***************************************************************************)
MaxRuns == 3

RunChars == {"a", "B", "-", " "}

RunLens == {1, SlugMaxLen - 1}

Repeat(c, n) == [i \in 1..n |-> c]

RECURSIVE Concat(_)
Concat(runs) ==
    IF runs = <<>> THEN <<>>
    ELSE Repeat(Head(runs)[1], Head(runs)[2]) \o Concat(Tail(runs))

RunSeqs == UNION {[1..n -> RunChars \X RunLens] : n \in 0..MaxRuns}

NormInputs == {Concat(r) : r \in RunSeqs}

(***************************************************************************)
(* Signup wizard: inputs                                                   *)
(***************************************************************************)
\* ids the identity provider can return
Users == {"u1", "u2"}

\* what the user types into the email and password fields
CredentialTexts == {<<"a">>}

\* what the user can type into a required text field
FieldTexts == {<<" ">>, <<"a">>}

\* what the user can type into the share-slug field
SlugInputs ==
    { <<>>, <<" ">>, <<"!", "!">>, <<"a", "-">>,
      <<"a", "b", "c">>, <<"A", "b", "c", " ">>, <<"a", "b", "d">> }

\* the slug texts typed while the whole wizard is walked through: too short,
\* held by another profile, free
WizardSlugs == {<<"a", "-">>, <<"a", "b", "c">>, <<"a", "b", "d">>}

\* checkSlug closures that may be awaiting at the same time
MaxChecks == 2

\* rows of another user that exist before the session starts
OtherProfile == [id |-> "other", share_slug |-> <<"a", "b", "c">>]

IdleHandler == [pc |-> "idle"]

NoWriter == [text |-> <<>>, stale |-> FALSE]

\* const MAX_MEMORIES
MAX_MEMORIES == 10

\* the draft useState starts with
EmptyDraft(k) ==
    [key |-> k, city |-> <<>>, region |-> <<>>, description |-> <<>>,
     dateLocal |-> TRUE, file |-> FALSE]

(***************************************************************************)
(* Signup wizard: guards                                                   *)
(***************************************************************************)
normalizedSlug == normalizeSlug(shareSlug)

SlugTooShortMutEmptyOnly(norm) == norm = <<>>

\* if (!normalizedSlug || normalizedSlug.length < 3)
SlugTooShort(norm) == norm = <<>> \/ Len(norm) < MinSlugLen

canGoNextMutNoStatus ==
    IF step = 1 THEN email # <<>> /\ password # <<>>
    ELSE IF step = 2 THEN
        /\ uid # None
        /\ Trim(fullName) # <<>>
        /\ Len(normalizedSlug) >= MinSlugLen
        /\ Trim(homeCity) # <<>>
    ELSE TRUE

canGoNext ==
    IF step = 1 THEN email # <<>> /\ password # <<>>
    ELSE IF step = 2 THEN
        /\ uid # None
        /\ Trim(fullName) # <<>>
        /\ ~SlugTooShort(normalizedSlug)
        /\ ~(slugStatus = "taken" \/ slugStatus = "checking")
        /\ Trim(homeCity) # <<>>
    ELSE TRUE

\* one draft passes the loop body of canFinish; rev 2 also requires the
\* short description
DraftValid(m) ==
    /\ Trim(m.city) # <<>>
    /\ Trim(m.region) # <<>>
    /\ (rev = 2 => Trim(m.description) # <<>>)
    /\ m.file

canFinishMutCountOnly ==
    /\ uid # None
    /\ ~(Len(memories) < 1 \/ Len(memories) > MAX_MEMORIES)

canFinish ==
    /\ uid # None
    /\ ~(Len(memories) < 1 \/ Len(memories) > MAX_MEMORIES)
    /\ \A i \in DOMAIN memories : DraftValid(memories[i])

(***************************************************************************)
(* The checkSlug effect.  Every change of its dependencies runs the        *)
(* cleanup of the previous run (cancelled = true in that closure) and then *)
(* the effect body with the new values.                                    *)
(***************************************************************************)
\* the dependency array: [shareSlug, normalizedSlug] in rev 1, plus step in
\* rev 2
SlugDepsChanged(newStep, newText) ==
    \/ newText # shareSlug
    \/ rev = 2 /\ newStep # step

CancelAll(cs) == {[c EXCEPT !.cancelled = TRUE] : c \in cs}

\* the synchronous part of checkSlug, up to the first await
SlugEffect(newStep, newText) ==
    IF ~SlugDepsChanged(newStep, newText)
    THEN UNCHANGED <<checks, slugStatus, slugWrittenBy>>
    ELSE IF rev = 2 /\ newStep # 2
    THEN /\ checks' = CancelAll(checks)
         /\ UNCHANGED <<slugStatus, slugWrittenBy>>
    ELSE IF Trim(newText) = <<>>
    THEN /\ checks' = CancelAll(checks)
         /\ slugStatus' = "idle"
         /\ slugWrittenBy' = [text |-> newText, stale |-> FALSE]
    ELSE IF SlugTooShort(normalizeSlug(newText))
    THEN /\ checks' = CancelAll(checks)
         /\ slugStatus' = "invalid"
         /\ slugWrittenBy' = [text |-> newText, stale |-> FALSE]
    ELSE /\ checks' = CancelAll(checks) \cup
                        {[text |-> newText, norm |-> normalizeSlug(newText),
                          cancelled |-> FALSE, pc |-> "timer"]}
         /\ slugStatus' = "checking"
         /\ slugWrittenBy' = [text |-> newText, stale |-> FALSE]

\* a slug edit or a step change is accepted by the model only while fewer
\* than MaxChecks closures are awaiting
ChecksRoom == Cardinality(checks) < MaxChecks

CheckCancelledMutIgnored(c) == FALSE

\* if (cancelled) return;  after each await of checkSlug
CheckCancelled(c) == c.cancelled

\* await new Promise((r) => setTimeout(r, 300)) resolves
SlugTimerFires ==
    /\ \E c \in checks :
         /\ c.pc = "timer"
         /\ IF CheckCancelled(c)
            THEN checks' = checks \ {c}
            ELSE checks' = (checks \ {c}) \cup {[c EXCEPT !.pc = "query"]}
    /\ UNCHANGED <<rev, nfVars, mapVars, pageVars, epVars,
                   step, loading, error, uid, email,
                   password, fullName, shareSlug, homeCity, avatarFile,
                   memories, slugStatus, slugWrittenBy, handler, profiles,
                   places, userPlaces, memoryRows, storageObjs, mediaRows,
                   callLog, redirected>>

\* data && data.length > 0 for .eq("share_slug", normalizedSlug)
SlugExists(norm) == \E p \in profiles : p.share_slug = norm

QueryStatusMutFailClosed(failed, exists) ==
    IF failed THEN "taken"
    ELSE IF exists THEN "taken" ELSE "available"

\* if (error) { setSlugStatus("available"); return; }
\* setSlugStatus(data && data.length > 0 ? "taken" : "available")
QueryStatus(failed, exists) ==
    IF failed THEN "available"
    ELSE IF exists THEN "taken" ELSE "available"

\* the existence query of the check c resolves, with an error or with the
\* rows found
SlugQueryResolvesWith(c, failed) ==
    /\ c \in checks
    /\ c.pc = "query"
    /\ checks' = checks \ {c}
    /\ IF CheckCancelled(c)
       THEN UNCHANGED <<slugStatus, slugWrittenBy>>
       ELSE /\ slugStatus' = QueryStatus(failed, SlugExists(c.norm))
            /\ slugWrittenBy' = [text |-> c.text, stale |-> c.cancelled]
    /\ UNCHANGED <<rev, nfVars, mapVars, pageVars, epVars,
                   step, loading, error, uid, email,
                   password, fullName, shareSlug, homeCity, avatarFile,
                   memories, handler, profiles, places, userPlaces,
                   memoryRows, storageObjs, mediaRows, callLog, redirected>>

SlugQueryResolves ==
    \E c \in checks, failed \in BOOLEAN : SlugQueryResolvesWith(c, failed)

(***************************************************************************)
(* Signup wizard: form fields (each input is rendered on its step only)    *)
(***************************************************************************)
SetEmail ==
    /\ redirected = None
    /\ step = 1
    /\ \E t \in CredentialTexts : t # email /\ email' = t
    /\ UNCHANGED <<rev, nfVars, mapVars, pageVars, epVars,
                   step, loading, error, uid, password,
                   fullName, shareSlug, homeCity, avatarFile, memories,
                   slugStatus, checks, slugWrittenBy, handler, profiles,
                   places, userPlaces, memoryRows, storageObjs, mediaRows,
                   callLog, redirected>>

SetPassword ==
    /\ redirected = None
    /\ step = 1
    /\ \E t \in CredentialTexts : t # password /\ password' = t
    /\ UNCHANGED <<rev, nfVars, mapVars, pageVars, epVars,
                   step, loading, error, uid, email,
                   fullName, shareSlug, homeCity, avatarFile, memories,
                   slugStatus, checks, slugWrittenBy, handler, profiles,
                   places, userPlaces, memoryRows, storageObjs, mediaRows,
                   callLog, redirected>>

SetFullNameTo(texts) ==
    /\ redirected = None
    /\ step = 2
    /\ \E t \in texts : t # fullName /\ fullName' = t
    /\ UNCHANGED <<rev, nfVars, mapVars, pageVars, epVars,
                   step, loading, error, uid, email,
                   password, shareSlug, homeCity, avatarFile, memories,
                   slugStatus, checks, slugWrittenBy, handler, profiles,
                   places, userPlaces, memoryRows, storageObjs, mediaRows,
                   callLog, redirected>>

SetFullName == SetFullNameTo(FieldTexts)

SetHomeCityTo(texts) ==
    /\ redirected = None
    /\ step = 2
    /\ \E t \in texts : t # homeCity /\ homeCity' = t
    /\ UNCHANGED <<rev, nfVars, mapVars, pageVars, epVars,
                   step, loading, error, uid, email,
                   password, fullName, shareSlug, avatarFile, memories,
                   slugStatus, checks, slugWrittenBy, handler, profiles,
                   places, userPlaces, memoryRows, storageObjs, mediaRows,
                   callLog, redirected>>

SetHomeCity == SetHomeCityTo(FieldTexts)

SetAvatarFile ==
    /\ redirected = None
    /\ step = 2
    /\ avatarFile' = ~avatarFile
    /\ UNCHANGED <<rev, nfVars, mapVars, pageVars, epVars,
                   step, loading, error, uid, email,
                   password, fullName, shareSlug, homeCity, memories,
                   slugStatus, checks, slugWrittenBy, handler, profiles,
                   places, userPlaces, memoryRows, storageObjs, mediaRows,
                   callLog, redirected>>

\* onChange of the share-slug input, and the checkSlug effect it triggers
TypeShareSlug(texts) ==
    /\ redirected = None
    /\ step = 2
    /\ ChecksRoom
    /\ \E t \in texts :
         /\ t # shareSlug
         /\ shareSlug' = t
         /\ SlugEffect(step, t)
    /\ UNCHANGED <<rev, nfVars, mapVars, pageVars, epVars,
                   step, loading, error, uid, email,
                   password, fullName, homeCity, avatarFile, memories,
                   handler, profiles, places, userPlaces, memoryRows,
                   storageObjs, mediaRows, callLog, redirected>>

SetShareSlug == TypeShareSlug(SlugInputs)

SetShareSlugShort == TypeShareSlug(WizardSlugs)

\* the values a user who fills in step 2 once types: a name, a city, and a
\* slug no other profile holds
FilledTexts == {<<"a">>}

FilledSlugs == {<<"a", "b", "d">>}

FillFullName == SetFullNameTo(FilledTexts)

FillHomeCity == SetHomeCityTo(FilledTexts)

FillShareSlug == TypeShareSlug(FilledSlugs)

(***************************************************************************)
(* STEP 1: handleCreateAccount                                             *)
(***************************************************************************)
otherVars == <<rev, nfVars, mapVars, pageVars, epVars>>

formVars == <<email, password, fullName, homeCity, avatarFile>>

dbVars == <<places, userPlaces, memoryRows, storageObjs, mediaRows>>

Call(op, i) == [op |-> op, draft |-> i]

HandlerThrowsMutKeepsLoading(msg) ==
    /\ error' = msg
    /\ UNCHANGED loading
    /\ handler' = IdleHandler

\* catch (e) { setError(e.message) } finally { setLoading(false) }
HandlerThrows(msg) ==
    /\ error' = msg
    /\ loading' = FALSE
    /\ handler' = IdleHandler

loadingReturnMutNever == FALSE

\* if (loading) return;  the first statement of the three step handlers
loadingReturn == loading

\* handleCreateAccount past its loading check
HandleCreateAccountRun ==
    /\ error' = None
    /\ loading' = TRUE
    /\ handler' = [pc |-> "signUp", credentials |-> (email # <<>> /\ password # <<>>)]
    /\ callLog' = <<Call("signUp", 0)>>
    /\ UNCHANGED <<otherVars, formVars, dbVars, step, uid, shareSlug, memories,
                   slugStatus, checks, slugWrittenBy, profiles, redirected>>

\* Next pressed on step 1
HandleCreateAccount ==
    /\ redirected = None
    /\ step = 1
    /\ IF loadingReturn THEN UNCHANGED vars ELSE HandleCreateAccountRun

\* setUid(userId); setStep(2); finally setLoading(false)
SessionCreated(u) ==
    /\ uid' = u
    /\ step' = 2
    /\ loading' = FALSE
    /\ handler' = IdleHandler
    /\ SlugEffect(2, shareSlug)
    /\ UNCHANGED error

\* supabase.auth.signUp resolves: an error, a user, or no user in the data
SignUpResolves ==
    /\ handler.pc = "signUp"
    /\ (rev = 2 => ChecksRoom)
    /\ \/ /\ HandlerThrows("signUp error")
          /\ UNCHANGED <<uid, step, checks, slugStatus, slugWrittenBy, callLog>>
       \/ /\ handler.credentials
          /\ \E u \in Users : SessionCreated(u)
          /\ UNCHANGED callLog
       \/ /\ handler.credentials
          /\ handler' = [handler EXCEPT !.pc = "signIn"]
          /\ callLog' = Append(callLog, Call("signInWithPassword", 0))
          /\ UNCHANGED <<uid, step, loading, error, checks, slugStatus,
                         slugWrittenBy>>
    /\ UNCHANGED <<otherVars, formVars, dbVars, shareSlug, memories, profiles,
                   redirected>>

\* the fallback supabase.auth.signInWithPassword resolves
SignInResolves ==
    /\ handler.pc = "signIn"
    /\ (rev = 2 => ChecksRoom)
    /\ \/ /\ HandlerThrows("signIn error")
          /\ UNCHANGED <<uid, step, checks, slugStatus, slugWrittenBy>>
       \/ /\ HandlerThrows("Could not create session after signup.")
          /\ UNCHANGED <<uid, step, checks, slugStatus, slugWrittenBy>>
       \/ \E u \in Users : SessionCreated(u)
    /\ UNCHANGED <<otherVars, formVars, dbVars, shareSlug, memories, profiles,
                   callLog, redirected>>

(***************************************************************************)
(* STEP 2: handleSaveProfileAndNext                                        *)
(***************************************************************************)
\* handleSaveProfileAndNext past its loading check
HandleSaveProfileAndNextRun ==
    /\ IF uid = None
       THEN /\ error' = "No session found. Please create your account first."
            /\ UNCHANGED <<loading, handler, callLog>>
       ELSE IF ~canGoNext
       THEN /\ error' = None
            /\ UNCHANGED <<loading, handler, callLog>>
       ELSE /\ error' = None
            /\ loading' = TRUE
            /\ handler' = [pc |-> IF avatarFile THEN "avatar" ELSE "upsert",
                           uid |-> uid,
                           full_name |-> fullName,
                           home_city |-> homeCity,
                           share_slug |-> normalizedSlug,
                           slugStatus |-> slugStatus]
            /\ callLog' = <<Call(IF avatarFile THEN "uploadAvatar"
                                 ELSE "upsertProfile", 0)>>
    /\ UNCHANGED <<otherVars, formVars, dbVars, step, uid, shareSlug, memories,
                   slugStatus, checks, slugWrittenBy, profiles, redirected>>

\* Next pressed on step 2
HandleSaveProfileAndNext ==
    /\ redirected = None
    /\ step = 2
    /\ IF loadingReturn THEN UNCHANGED vars ELSE HandleSaveProfileAndNextRun

\* uploadWithLogs("avatars", ...) resolves; it throws on a storage error
AvatarUploadResolves ==
    /\ handler.pc = "avatar"
    /\ \/ /\ HandlerThrows("upload error")
          /\ UNCHANGED <<storageObjs, callLog>>
       \/ /\ storageObjs' = storageObjs \cup {<<"avatars", handler.uid>>}
          /\ handler' = [handler EXCEPT !.pc = "upsert"]
          /\ callLog' = Append(callLog, Call("upsertProfile", 0))
          /\ UNCHANGED <<error, loading>>
    /\ UNCHANGED <<otherVars, formVars, places, userPlaces, memoryRows,
                   mediaRows, step, uid, shareSlug, memories, slugStatus,
                   checks, slugWrittenBy, profiles, redirected>>

\* lib/auth.ts upsertProfile: the row written for userId, keyed by id
ProfileRow(userId, share_slug) ==
    [id |-> userId, share_slug |-> slugify(share_slug)]

\* the unique index on profiles.share_slug rejects a slug held by another id
SlugConflict(userId, share_slug) ==
    \E p \in profiles : p.id # userId /\ p.share_slug = slugify(share_slug)

ProfileErrorAdvancesMut(failed) == FALSE

\* if (profErr) { setError(...); return; }
ProfileErrorStops(failed) == failed

\* the errors the profiles upsert can resolve with: the Postgres code, the
\* message, and the message cut into pieces for the substring tests
UpsertFailures ==
    { [code |-> "23505",
       message |-> "duplicate key value violates unique constraint profiles_share_slug_unique",
       pieces |-> <<"duplicate", "key", "profiles_", "share_slug", "_unique">>],
      [code |-> "",
       message |-> "Duplicate request",
       pieces |-> <<"Duplicate", "request">>],
      [code |-> "42501",
       message |-> "permission denied for table profiles",
       pieces |-> <<"permission", "denied", "profiles">>],
      [code |-> "",
       message |-> "Failed to fetch",
       pieces |-> <<"Failed", "to", "fetch">>] }

\* msg.toLowerCase() on the pieces of a message
LowerPiece(w) ==
    CASE w = "Duplicate" -> "duplicate"
      [] w = "Failed" -> "failed"
      [] OTHER -> w

\* msg.toLowerCase().includes(needle)
LowerIncludes(f, needle) ==
    \E i \in DOMAIN f.pieces : LowerPiece(f.pieces[i]) = needle

ProfileErrorMessageMutRaw(f) == f.message

\* the message handleSaveProfileAndNext shows for the error of the upsert
ProfileErrorMessage(f) ==
    IF LowerIncludes(f, "share_slug") \/ LowerIncludes(f, "duplicate")
    THEN "This slug is already taken. Try a different one."
    ELSE f.message

\* upsertProfile resolves without an error (ok) or with the error f
UpsertProfileResolvesWith(ok, f) ==
    /\ handler.pc = "upsert"
    /\ (rev = 2 => ChecksRoom)
    /\ ok => ~SlugConflict(handler.uid, handler.share_slug)
    /\ (~ok /\ f.code = "23505")
          => SlugConflict(handler.uid, handler.share_slug)
    /\ profiles' = IF ok
                   THEN {p \in profiles : p.id # handler.uid} \cup
                        {ProfileRow(handler.uid, handler.share_slug)}
                   ELSE profiles
    /\ IF ProfileErrorStops(~ok)
       THEN /\ error' = ProfileErrorMessage(f)
            /\ UNCHANGED <<step, checks, slugStatus, slugWrittenBy>>
       ELSE /\ step' = 3
            /\ SlugEffect(3, shareSlug)
            /\ UNCHANGED error
    /\ loading' = FALSE
    /\ handler' = IdleHandler
    /\ UNCHANGED <<otherVars, formVars, dbVars, uid, shareSlug, memories,
                   callLog, redirected>>

UpsertProfileResolves ==
    \E ok \in BOOLEAN, f \in UpsertFailures : UpsertProfileResolvesWith(ok, f)

(***************************************************************************)
(* Back                                                                    *)
(***************************************************************************)
\* rev 2: the useMemo canGoBackToPrevStep
canGoBackToPrevStep ==
    IF loading THEN FALSE
    ELSE IF step = 1 THEN FALSE
    ELSE IF step = 2 THEN uid = None
    ELSE IF step = 3 THEN TRUE
    ELSE FALSE

\* rev 1: onClick={() => setStep((s) => (s === 1 ? 1 : s - 1))},
\*        disabled={loading || step === 1}
\* rev 2: handleBack
Back ==
    /\ redirected = None
    /\ IF rev = 1
       THEN /\ ~(loading \/ step = 1)
            /\ step' = IF step = 1 THEN 1 ELSE step - 1
            /\ UNCHANGED error
       ELSE /\ canGoBackToPrevStep
            /\ ChecksRoom
            /\ error' = None
            /\ step' = IF step = 3 THEN 2
                       ELSE IF step = 2 /\ uid = None THEN 1
                       ELSE step
    /\ SlugEffect(step', shareSlug)
    /\ UNCHANGED <<otherVars, formVars, dbVars, loading, uid, shareSlug,
                   memories, handler, profiles, callLog, redirected>>

(***************************************************************************)
(* STEP 3: the drafts and handleFinish                                     *)
(***************************************************************************)
\* drafts the model lets a list hold (MAX_MEMORIES is the program's cap)
MaxDrafts == 3

\* memories rows the model lets the backend hold
MaxMemoryRows == 3

MergePatchMutResets(m, patch) ==
    [f \in DOMAIN m |-> IF f \in DOMAIN patch THEN patch[f]
                        ELSE EmptyDraft(m.key)[f]]

\* { ...m, ...patch }
MergePatch(m, patch) ==
    [f \in DOMAIN m |-> IF f \in DOMAIN patch THEN patch[f] ELSE m[f]]

\* setMemories((prev) => prev.map((m) => (m.key === key ? {...m, ...patch} : m)))
updateMemory(prev, key, patch) ==
    [i \in DOMAIN prev |->
        IF prev[i].key = key THEN MergePatch(prev[i], patch) ELSE prev[i]]

\* the patches the inputs of a draft card send while the wizard is walked
\* through: location, description, photo
WizardPatches ==
    { [city |-> <<"a">>, region |-> <<"x">>],
      [description |-> <<"d">>],
      [file |-> TRUE] }

\* onUpdate of one of the draft cards, sending one of the patches
UpdateMemoryWith(cards, patches) ==
    /\ redirected = None
    /\ step = 3
    /\ \E i \in cards \cap DOMAIN memories, patch \in patches :
         /\ memories' = updateMemory(memories, memories[i].key, patch)
         /\ memories' # memories
    /\ UNCHANGED <<otherVars, formVars, dbVars, step, loading, error, uid,
                   shareSlug, slugStatus, checks, slugWrittenBy, handler,
                   profiles, callLog, redirected>>

UpdateMemory == UpdateMemoryWith(DOMAIN memories, WizardPatches)

\* the photo input of a draft card
PhotoPatches == {[file |-> TRUE], [file |-> FALSE]}

\* the user picks and clears the photo of the first card
UpdateMemoryPhoto == UpdateMemoryWith({1}, PhotoPatches)

\* the inputs of the first draft card
UpdateFirstMemory == UpdateMemoryWith({1}, WizardPatches)

\* keys the model lets crypto.randomUUID() return, as numbers
MaxKey == 11

DraftKeys(prev) == {prev[i].key : i \in DOMAIN prev}

\* crypto.randomUUID(): a key no draft of the list has
NewKey(prev) ==
    1 + (CHOOSE k \in DraftKeys(prev) \cup {0} :
             \A j \in DraftKeys(prev) : k >= j)

AtCapMutNever(prev) == FALSE

\* if (prev.length >= MAX_MEMORIES) return prev;
AtCap(prev) == Len(prev) >= MAX_MEMORIES

\* the updater of addMemory
addMemory(prev, key) ==
    IF AtCap(prev) THEN prev ELSE Append(prev, EmptyDraft(key))

\* prev.filter((m) => m.key !== key)
FilterKey(prev, key) ==
    LET Keeps(m) == m.key # key IN SelectSeq(prev, Keeps)

\* the updater of removeMemory
removeMemory(prev, key) ==
    IF Len(prev) <= 1 THEN prev ELSE FilterKey(prev, key)

\* addMemory called (rev 2 returns at once while loading)
AddMemory ==
    /\ redirected = None
    /\ step = 3
    /\ AtCap(memories) \/ NewKey(memories) <= MaxKey
    /\ IF rev = 2 /\ loading
       THEN UNCHANGED <<error, memories>>
       ELSE /\ error' = None
            /\ memories' = addMemory(memories, NewKey(memories))
    /\ UNCHANGED <<otherVars, formVars, dbVars, step, loading, uid, shareSlug,
                   slugStatus, checks, slugWrittenBy, handler, profiles,
                   callLog, redirected>>

\* removeMemory(m.key) called from the card of a draft
RemoveMemory ==
    /\ redirected = None
    /\ step = 3
    /\ \E i \in DOMAIN memories :
         IF rev = 2 /\ loading
         THEN UNCHANGED <<error, memories>>
         ELSE /\ error' = None
              /\ memories' = removeMemory(memories, memories[i].key)
    /\ UNCHANGED <<otherVars, formVars, dbVars, step, loading, uid, shareSlug,
                   slugStatus, checks, slugWrittenBy, handler, profiles,
                   callLog, redirected>>

normalizePlaceKeyMutKeepsCase(city, region) == <<Trim(city), Trim(region)>>

\* normalizePlaceKey(city, region, "United States"); the country part is the
\* same in every call of the wizard
normalizePlaceKey(city, region) ==
    <<ToLowerCase(Trim(city)), ToLowerCase(Trim(region))>>

\* the draft the loop of the handler in flight is at
CurDraft == handler.drafts[handler.i]

CurPlaceKey == normalizePlaceKey(Trim(CurDraft.city), Trim(CurDraft.region))

\* new Date(m.dateLocal).toISOString() throws on an invalid date
DraftThrows(m) == ~m.dateLocal

FinishRun == 1 + Cardinality({r.run : r \in memoryRows})

\* handleFinish past its loading check
HandleFinishRun ==
    /\ Cardinality(memoryRows) + Len(memories) <= MaxMemoryRows
    /\ IF uid = None
       THEN /\ error' = "No session found. Please create your account first."
            /\ UNCHANGED <<loading, handler, callLog>>
       ELSE IF ~canFinish
       THEN /\ error' = "Each memory needs a location and one photo."
            /\ UNCHANGED <<loading, handler, callLog>>
       ELSE IF DraftThrows(memories[1])
       THEN /\ error' = "Invalid time value"
            /\ callLog' = <<>>
            /\ UNCHANGED <<loading, handler>>
       ELSE /\ error' = None
            /\ loading' = TRUE
            /\ handler' = [pc |-> "placeFind", uid |-> uid,
                           share_slug |-> normalizedSlug, drafts |-> memories,
                           i |-> 1, placeId |-> 0, memoryId |-> 0,
                           run |-> FinishRun]
            /\ callLog' = <<Call("placeFind", 1)>>
    /\ UNCHANGED <<otherVars, formVars, dbVars, step, uid, shareSlug, memories,
                   slugStatus, checks, slugWrittenBy, profiles, redirected>>

\* "Create my map" submitted on step 3
HandleFinish ==
    /\ redirected = None
    /\ step = 3
    /\ IF loadingReturn THEN UNCHANGED vars ELSE HandleFinishRun

\* the place row is known: issue the user_places upsert
GoPin(placeId) ==
    /\ handler' = [handler EXCEPT !.pc = "pin", !.placeId = placeId]
    /\ callLog' = Append(callLog, Call("pin", handler.i))
    /\ UNCHANGED <<error, loading>>

PlaceMatches == {p \in places : p.normalized_key = CurPlaceKey}

\* ensurePlace: .select("id").eq("normalized_key", ...).maybeSingle() resolves
PlaceFindResolves ==
    /\ handler.pc = "placeFind"
    /\ \/ /\ HandlerThrows("places select error")
          /\ UNCHANGED callLog
       \/ /\ Cardinality(PlaceMatches) = 1
          /\ \E p \in PlaceMatches : GoPin(p.id)
       \/ /\ PlaceMatches = {}
          /\ handler' = [handler EXCEPT !.pc = "placeInsert"]
          /\ callLog' = Append(callLog, Call("placeInsert", handler.i))
          /\ UNCHANGED <<error, loading>>
    /\ UNCHANGED <<otherVars, formVars, dbVars, step, uid, shareSlug, memories,
                   slugStatus, checks, slugWrittenBy, profiles, redirected>>

\* ensurePlace: .insert([{ city, region, country, normalized_key }]) resolves
PlaceInsertResolves ==
    /\ handler.pc = "placeInsert"
    /\ \/ /\ HandlerThrows("places insert error")
          /\ UNCHANGED <<places, callLog>>
       \/ /\ places' = places \cup
                 {[id |-> Cardinality(places) + 1, normalized_key |-> CurPlaceKey]}
          /\ GoPin(Cardinality(places) + 1)
    /\ UNCHANGED <<otherVars, formVars, userPlaces, memoryRows, storageObjs,
                   mediaRows, step, uid, shareSlug, memories, slugStatus,
                   checks, slugWrittenBy, profiles, redirected>>

\* .upsert([{ user_id, place_id, label, pinned }], { onConflict: "user_id,place_id" })
UpsertPin(rows, userId, placeId, label) ==
    {r \in rows : ~(r.user_id = userId /\ r.place_id = placeId)} \cup
    {[user_id |-> userId, place_id |-> placeId, label |-> label]}

PinUpsertResolves ==
    /\ handler.pc = "pin"
    /\ \/ /\ HandlerThrows("user_places upsert error")
          /\ UNCHANGED <<userPlaces, callLog>>
       \/ /\ userPlaces' = UpsertPin(userPlaces, handler.uid, handler.placeId,
                                     Trim(CurDraft.city))
          /\ handler' = [handler EXCEPT !.pc = "memory"]
          /\ callLog' = Append(callLog, Call("memory", handler.i))
          /\ UNCHANGED <<error, loading>>
    /\ UNCHANGED <<otherVars, formVars, places, memoryRows, storageObjs,
                   mediaRows, step, uid, shareSlug, memories, slugStatus,
                   checks, slugWrittenBy, profiles, redirected>>

\* supabase.from("memories").insert([...]).select("id").single() resolves
MemoryInsertResolves ==
    /\ handler.pc = "memory"
    /\ \/ /\ HandlerThrows("memories insert error")
          /\ UNCHANGED <<memoryRows, callLog>>
       \/ /\ memoryRows' = memoryRows \cup
                 {[id |-> Cardinality(memoryRows) + 1, user_id |-> handler.uid,
                   place_id |-> handler.placeId, key |-> CurDraft.key,
                   run |-> handler.run]}
          /\ handler' = [handler EXCEPT !.pc = "upload",
                                        !.memoryId = Cardinality(memoryRows) + 1]
          /\ callLog' = Append(callLog, Call("upload", handler.i))
          /\ UNCHANGED <<error, loading>>
    /\ UNCHANGED <<otherVars, formVars, places, userPlaces, storageObjs,
                   mediaRows, step, uid, shareSlug, memories, slugStatus,
                   checks, slugWrittenBy, profiles, redirected>>

\* `${uid}/${memoryId}/0.${ext}` in the bucket memory-media
StoragePath(userId, memoryId) == <<"memory-media", userId, memoryId>>

\* supabase.storage.from("memory-media").upload(...) resolves
UploadResolves ==
    /\ handler.pc = "upload"
    /\ \/ /\ HandlerThrows("upload error")
          /\ UNCHANGED <<storageObjs, callLog>>
       \/ /\ storageObjs' = storageObjs \cup
                 {StoragePath(handler.uid, handler.memoryId)}
          /\ handler' = [handler EXCEPT !.pc = "media"]
          /\ callLog' = Append(callLog, Call("media", handler.i))
          /\ UNCHANGED <<error, loading>>
    /\ UNCHANGED <<otherVars, formVars, places, userPlaces, memoryRows,
                   mediaRows, step, uid, shareSlug, memories, slugStatus,
                   checks, slugWrittenBy, profiles, redirected>>

AbortOnErrorMut(failed) == FALSE

\* if (mediaRow.error) throw mediaRow.error;  and the like after each write
AbortOnError(failed) == failed

\* for (let i = 0; i < memories.length; i++)
NextDraft(i) == i + 1

\* supabase.from("memory_media").insert([...]) resolves; the loop goes on to
\* the next draft, or the handler redirects after the last one
MediaInsertResolves ==
    /\ handler.pc = "media"
    /\ \E failed \in BOOLEAN :
         /\ mediaRows' = IF failed THEN mediaRows
                         ELSE mediaRows \cup
                              {[memory_id |-> handler.memoryId,
                                storage_path |-> StoragePath(handler.uid,
                                                             handler.memoryId)]}
         /\ IF AbortOnError(failed)
            THEN /\ HandlerThrows("memory_media insert error")
                 /\ UNCHANGED <<callLog, redirected>>
            ELSE IF NextDraft(handler.i) > Len(handler.drafts)
            THEN /\ redirected' = handler.share_slug
                 /\ loading' = FALSE
                 /\ handler' = IdleHandler
                 /\ UNCHANGED <<error, callLog>>
            ELSE IF DraftThrows(handler.drafts[NextDraft(handler.i)])
            THEN /\ HandlerThrows("Invalid time value")
                 /\ UNCHANGED <<callLog, redirected>>
            ELSE /\ handler' = [handler EXCEPT !.pc = "placeFind",
                                               !.i = NextDraft(handler.i)]
                 /\ callLog' = Append(callLog,
                                      Call("placeFind", NextDraft(handler.i)))
                 /\ UNCHANGED <<error, loading, redirected>>
    /\ UNCHANGED <<otherVars, formVars, places, userPlaces, memoryRows,
                   storageObjs, step, uid, shareSlug, memories, slugStatus,
                   checks, slugWrittenBy, profiles>>

(***************************************************************************)
(* MapboxMap.  A marker on the map is [h, pinId, lngLat, active]: h is the *)
(* identity of the mapboxgl.Marker object, pinId the id its click handler  *)
(* reports, active the styling applied to its element.                     *)
(***************************************************************************)
PinIds == {"p1", "p2", "p3"}

\* [lng, lat] a place can have
Coords == {<<0, 0>>, <<1, 2>>}

\* pins the model passes in one list
MaxPins == 2

\* zoom levels are counted in tenths; the default of the zoom prop is 1.2
InitialZoom == 12

\* zoom: Math.max(map.getZoom(), 4)
FlyToMinZoom == 40

\* the zoom levels the user sets by hand: one below the minimum of flyTo,
\* one above it
ZoomLevels == {InitialZoom, FlyToMinZoom + 10}

PinIdsOf(ps) == {ps[i].id : i \in DOMAIN ps}

\* the lists a caller passes: user_places holds one row per place, so no id
\* occurs twice
\* and the model moves one place only
MovingPin == "p1"

PinLists ==
    UNION { {ps \in [1..n -> [id : PinIds, lngLat : Coords]] :
                /\ \A i, j \in 1..n : ps[i].id = ps[j].id => i = j
                /\ \A i \in 1..n :
                     ps[i].id # MovingPin => ps[i].lngLat = <<0, 0>>}
            : n \in 0..MaxPins }

NoOps == [removed |-> {}, created |-> {}, moved |-> {}, styled |-> {}, flyTo |-> 0]

Handles(onMap) == {m.h : m \in onMap}

\* new mapboxgl.Marker(...): an object distinct from every marker on the map
FreshHandle(onMap) ==
    CHOOSE h \in 1..(Cardinality(onMap) + 1) :
        /\ h \notin Handles(onMap)
        /\ \A g \in 1..(h - 1) : g \in Handles(onMap)

\* new mapboxgl.Marker({ element: el }).setLngLat([p.lng, p.lat]).addTo(map);
\* markersRef.current.set(p.id, marker)  (rev 2: and elsRef.current.set)
CreateMarker(st, p, isActive) ==
    LET h == FreshHandle(st.mapMarkers) IN
    [st EXCEPT
        !.mapMarkers = @ \cup {[h |-> h, pinId |-> p.id, lngLat |-> p.lngLat,
                                active |-> isActive]},
        !.markersRef = (p.id :> h) @@ @,
        !.elsRef = IF rev = 2 THEN (p.id :> h) @@ @ ELSE @,
        !.ops.created = @ \cup {p.id}]

\* existing.setLngLat([p.lng, p.lat]); if (el) applyMarkerStyle(el, isActive)
UpdateMarker(st, p, isActive) ==
    LET h == st.markersRef[p.id] IN
    [st EXCEPT
        !.mapMarkers =
            {IF m.h = h
             THEN [m EXCEPT !.lngLat = p.lngLat,
                            !.active = IF p.id \in DOMAIN st.elsRef
                                       THEN isActive ELSE @]
             ELSE m : m \in @},
        !.ops.moved = @ \cup {p.id},
        !.ops.styled = IF p.id \in DOMAIN st.elsRef THEN @ \cup {p.id} ELSE @]

RemoveMarkersMutKeepsTable(st, gone) ==
    [st EXCEPT
        !.mapMarkers = {m \in @ : m.h \notin {st.markersRef[id] : id \in gone}},
        !.ops.removed = @ \cup gone]

\* marker.remove() for the ids of the table in gone, and their entries
\* deleted from markersRef and elsRef
RemoveMarkers(st, gone) ==
    [st EXCEPT
        !.mapMarkers = {m \in @ : m.h \notin {st.markersRef[id] : id \in gone}},
        !.markersRef = [id \in (DOMAIN @) \ gone |-> @[id]],
        !.elsRef = [id \in (DOMAIN @) \ gone |-> @[id]],
        !.ops.removed = @ \cup gone]

StaleIdsMutNone(st, ps) == {}

\* rev 2: the ids of the table that are not in nextIds
StaleIds(st, ps) == (DOMAIN st.markersRef) \ PinIdsOf(ps)

HasMarkerMutNever(st, id) == FALSE

\* rev 2: const existing = existingMarkers.get(p.id); if (existing)
HasMarker(st, id) == id \in DOMAIN st.markersRef

\* rev 2: for (const p of pins) { existing ? update : create }
RECURSIVE AddOrUpdate(_, _, _)
AddOrUpdate(st, ps, active) ==
    IF ps = <<>> THEN st
    ELSE LET p == Head(ps)
             isActive == p.id = active
         IN  AddOrUpdate(
                 IF HasMarker(st, p.id)
                 THEN UpdateMarker(st, p, isActive)
                 ELSE CreateMarker(st, p, isActive),
                 Tail(ps), active)

\* rev 1: for (const p of pins) { create }
RECURSIVE AddAll(_, _, _)
AddAll(st, ps, active) ==
    IF ps = <<>> THEN st
    ELSE AddAll(CreateMarker(st, Head(ps), Head(ps).id = active),
                Tail(ps), active)

\* effect 2 of the component: the marker sync
SyncMarkers(st, ps, active) ==
    IF ~st.mapRef THEN st
    ELSE IF rev = 1
    THEN AddAll(RemoveMarkers(st, DOMAIN st.markersRef), ps, active)
    ELSE AddOrUpdate(RemoveMarkers(st, StaleIds(st, ps)), ps, active)

\* useMemo(() => pins.find((p) => p.id === activePinId))
ActivePin(ps, active) ==
    IF active \in PinIdsOf(ps)
    THEN LET i == CHOOSE i \in DOMAIN ps : ps[i].id = active IN ps[i]
    ELSE None

FlyToActivePinMutFixedZoom(st, ps, active, enabled) ==
    IF ~st.mapRef \/ ~enabled \/ active \notin PinIdsOf(ps) THEN st
    ELSE [st EXCEPT !.camera = ActivePin(ps, active).lngLat,
                    !.zoom = FlyToMinZoom,
                    !.ops.flyTo = @ + 1]

\* effect 3 of the component: fly to the active pin
FlyToActivePin(st, ps, active, enabled) ==
    IF ~st.mapRef \/ ~enabled \/ active \notin PinIdsOf(ps) THEN st
    ELSE [st EXCEPT !.camera = ActivePin(ps, active).lngLat,
                    !.zoom = Max(@, FlyToMinZoom),
                    !.ops.flyTo = @ + 1]

\* effect 1 of the component.  rev 1 lists center in its dependencies, and
\* the default of that prop is a new array in every render, so each render
\* runs the cleanup (markers removed, map removed) and builds a new map;
\* rev 2 depends on the token only and keeps the map.
InitMap(st) ==
    IF st.mapRef /\ rev = 2 THEN st
    ELSE [RemoveMarkers(st, DOMAIN st.markersRef) EXCEPT
              !.mapRef = TRUE,
              !.mapMarkers = {},
              !.zoom = InitialZoom,
              !.camera = None]

MapState ==
    [mapRef |-> mapRef, markersRef |-> markersRef, elsRef |-> elsRef,
     mapMarkers |-> mapMarkers, zoom |-> zoom, camera |-> camera,
     ops |-> NoOps]

Unmounted ==
    [mapRef |-> FALSE, markersRef |-> <<>>, elsRef |-> <<>>, mapMarkers |-> {},
     zoom |-> InitialZoom, camera |-> None, ops |-> NoOps]

\* the effects of one render, in the order of their declaration
RunEffects(st, ps, active, enabled) ==
    FlyToActivePin(SyncMarkers(InitMap(st), ps, active), ps, active, enabled)

\* one render of the component with the props ps and a: its effects run
MapRenderAs(ps, a) ==
    /\ \E st \in {RunEffects(MapState, ps, a, flyToActive)} :
         /\ pins' = ps
         /\ activePinId' = a
         /\ mapRef' = st.mapRef
         /\ markersRef' = st.markersRef
         /\ elsRef' = st.elsRef
         /\ mapMarkers' = st.mapMarkers
         /\ zoom' = st.zoom
         /\ camera' = st.camera
         /\ lastOps' = st.ops
    /\ UNCHANGED <<rev, nfVars, wizVars, pageVars, epVars, flyToActive>>

\* the parent renders the component with a pin list and an active id
MapRender == \E ps \in PinLists, a \in PinIds \cup {None} : MapRenderAs(ps, a)

\* the user zooms the map by hand
MapZoom ==
    /\ mapRef
    /\ \E z \in ZoomLevels : z # zoom /\ zoom' = z
    /\ UNCHANGED <<rev, nfVars, wizVars, pageVars, epVars, mapRef, pins, activePinId,
                   flyToActive, markersRef, elsRef, mapMarkers, camera,
                   lastOps>>

(***************************************************************************)
(* Initial states and specifications                                       *)
(***************************************************************************)
NfIdle ==
    /\ nfInput = <<>>
    /\ nfOnce = <<>>
    /\ nfTwice = <<>>
    /\ nfPc = "raw"

MapIdle ==
    /\ mapRef = FALSE
    /\ pins = <<>>
    /\ activePinId = None
    /\ flyToActive = TRUE
    /\ markersRef = <<>>
    /\ elsRef = <<>>
    /\ mapMarkers = {}
    /\ zoom = InitialZoom
    /\ camera = None
    /\ lastOps = NoOps

\* The profile page is not mounted: its component state is the empty one.
NoFlow == [pc |-> "idle"]

PageIdle ==
    /\ pgPins = <<>>
    /\ pgActive = 0
    /\ pgCards = {}
    /\ pgCardsFor = 0
    /\ pgFetches = {}
    /\ pgFlow = NoFlow
    /\ pgClicks = 0

\* No client is inside ensurePlace.
EpIdle == epClients = <<>> /\ epUnique = FALSE

\* the wizard after its first render: the useState initial values
WizMount ==
    /\ step = 1
    /\ loading = FALSE
    /\ error = None
    /\ uid = None
    /\ email = <<>>
    /\ password = <<>>
    /\ fullName = <<>>
    /\ shareSlug = <<>>
    /\ homeCity = <<>>
    /\ avatarFile = FALSE
    /\ memories = <<EmptyDraft(1)>>
    /\ slugStatus = "idle"
    /\ checks = {}
    /\ slugWrittenBy = NoWriter
    /\ handler = IdleHandler
    /\ profiles = {OtherProfile}
    /\ places = {}
    /\ userPlaces = {}
    /\ memoryRows = {}
    /\ storageObjs = {}
    /\ mediaRows = {}
    /\ callLog = <<>>
    /\ redirected = None

WizInit ==
    /\ rev \in {1, 2}
    /\ WizMount
    /\ NfIdle
    /\ MapIdle
    /\ PageIdle
    /\ EpIdle

WizNext ==
    \/ SetEmail
    \/ SetPassword
    \/ SetFullName
    \/ SetHomeCity
    \/ SetAvatarFile
    \/ SetShareSlugShort
    \/ SlugTimerFires
    \/ SlugQueryResolves
    \/ HandleCreateAccount
    \/ SignUpResolves
    \/ SignInResolves
    \/ HandleSaveProfileAndNext
    \/ AvatarUploadResolves
    \/ UpsertProfileResolves
    \/ Back

\* the signup wizard from its mount on
SpecWizard == WizInit /\ [][WizNext]_vars

StepsNext ==
    \/ SetEmail
    \/ SetPassword
    \/ FillFullName
    \/ FillHomeCity
    \/ SetAvatarFile
    \/ FillShareSlug
    \/ SlugTimerFires
    \/ SlugQueryResolves
    \/ HandleCreateAccount
    \/ SignUpResolves
    \/ SignInResolves
    \/ HandleSaveProfileAndNext
    \/ AvatarUploadResolves
    \/ UpsertProfileResolves
    \/ UpdateFirstMemory
    \/ HandleFinish
    \/ PlaceFindResolves
    \/ PlaceInsertResolves
    \/ PinUpsertResolves
    \/ MemoryInsertResolves
    \/ UploadResolves
    \/ MediaInsertResolves

\* the three steps of the wizard walked through once, from the mount to the
\* redirect
SpecSteps == WizInit /\ [][StepsNext]_vars

\* every timer fires and every remote call awaited resolves or rejects
StepsFairness ==
    /\ WF_vars(SlugTimerFires)
    /\ WF_vars(SlugQueryResolves)
    /\ WF_vars(SignUpResolves)
    /\ WF_vars(SignInResolves)
    /\ WF_vars(AvatarUploadResolves)
    /\ WF_vars(UpsertProfileResolves)
    /\ WF_vars(PlaceFindResolves)
    /\ WF_vars(PlaceInsertResolves)
    /\ WF_vars(PinUpsertResolves)
    /\ WF_vars(MemoryInsertResolves)
    /\ WF_vars(UploadResolves)
    /\ WF_vars(MediaInsertResolves)

SpecStepsLive == SpecSteps /\ StepsFairness

\* a header button is pressed: router.push("/") replaces the page and the
\* wizard unmounts; the cleanup of the checkSlug effect runs
NavigateAway ==
    /\ redirected = None
    /\ redirected' = <<"/">>
    /\ checks' = CancelAll(checks)
    /\ UNCHANGED <<otherVars, formVars, dbVars, step, loading, error, uid,
                   shareSlug, memories, slugStatus, slugWrittenBy, handler,
                   profiles, callLog>>

LeaveNext ==
    \/ StepsNext
    \/ NavigateAway

\* the wizard walked through, and left at any moment
SpecLeave == WizInit /\ [][LeaveNext]_vars

\* the wizard on step 2, right after handleCreateAccount succeeded, with the
\* other required fields filled in
SlugInit ==
    /\ rev \in {1, 2}
    /\ step = 2
    /\ loading = FALSE
    /\ error = None
    /\ uid = "u1"
    /\ email = <<"a">>
    /\ password = <<"a">>
    /\ fullName = <<"a">>
    /\ shareSlug = <<>>
    /\ homeCity = <<"a">>
    /\ avatarFile = FALSE
    /\ memories = <<EmptyDraft(1)>>
    /\ slugStatus = "idle"
    /\ checks = {}
    /\ slugWrittenBy = NoWriter
    /\ handler = IdleHandler
    /\ profiles = {OtherProfile}
    /\ places = {}
    /\ userPlaces = {}
    /\ memoryRows = {}
    /\ storageObjs = {}
    /\ mediaRows = {}
    /\ callLog = <<>>
    /\ redirected = None
    /\ NfIdle
    /\ MapIdle
    /\ PageIdle
    /\ EpIdle

SlugNext ==
    \/ SetShareSlug
    \/ SlugTimerFires
    \/ SlugQueryResolves
    \/ HandleSaveProfileAndNext
    \/ UpsertProfileResolves
    \/ Back
    \/ HandleCreateAccount
    \/ SignUpResolves
    \/ SignInResolves

\* the slug-availability check, every slug text, around step 2
SpecSlug == SlugInit /\ [][SlugNext]_vars

\* what a filled-in draft card can hold: city, valid date, photo chosen,
\* short description
DraftKinds ==
    { <<<<"a">>, TRUE, TRUE, <<"d">>>>, <<<<"A", " ">>, TRUE, TRUE, <<"d">>>>,
      <<<<"b">>, TRUE, TRUE, <<"d">>>>, <<<<"a">>, FALSE, TRUE, <<"d">>>>,
      <<<<"a">>, TRUE, FALSE, <<>>>> }

DraftOf(k, kind) ==
    [key |-> k, city |-> kind[1], region |-> <<"x">>, description |-> kind[4],
     dateLocal |-> kind[2], file |-> kind[3]]

FinishDraftLists ==
    UNION { {[i \in 1..n |-> DraftOf(i, f[i])] : f \in [1..n -> DraftKinds]}
            : n \in 1..MaxDrafts }

\* the wizard on step 3, after the profile of u1 has been saved, with the
\* drafts the user has composed
FinishInit ==
    /\ rev \in {1, 2}
    /\ step = 3
    /\ loading = FALSE
    /\ error = None
    /\ uid = "u1"
    /\ email = <<"a">>
    /\ password = <<"a">>
    /\ fullName = <<"a">>
    /\ shareSlug = <<"a", "b", "d">>
    /\ homeCity = <<"a">>
    /\ avatarFile = FALSE
    /\ memories \in FinishDraftLists
    /\ slugStatus = "available"
    /\ checks = {}
    /\ slugWrittenBy = [text |-> <<"a", "b", "d">>, stale |-> FALSE]
    /\ handler = IdleHandler
    /\ profiles = {OtherProfile, ProfileRow("u1", <<"a", "b", "d">>)}
    /\ places = {}
    /\ userPlaces = {}
    /\ memoryRows = {}
    /\ storageObjs = {}
    /\ mediaRows = {}
    /\ callLog = <<>>
    /\ redirected = None
    /\ NfIdle
    /\ MapIdle
    /\ PageIdle
    /\ EpIdle

FinishNext ==
    \/ UpdateMemory
    \/ HandleFinish
    \/ PlaceFindResolves
    \/ PlaceInsertResolves
    \/ PinUpsertResolves
    \/ MemoryInsertResolves
    \/ UploadResolves
    \/ MediaInsertResolves

\* step 3 of the wizard: the drafts and handleFinish
SpecFinish == FinishInit /\ [][FinishNext]_vars

\* the wizard on step 3 with the draft list it mounts with
DraftsInit ==
    /\ rev \in {1, 2}
    /\ step = 3
    /\ loading = FALSE
    /\ error \in {None, "Each memory needs a location and one photo."}
    /\ uid = "u1"
    /\ email = <<"a">>
    /\ password = <<"a">>
    /\ fullName = <<"a">>
    /\ shareSlug = <<"a", "b", "d">>
    /\ homeCity = <<"a">>
    /\ avatarFile = FALSE
    /\ memories = <<EmptyDraft(1)>>
    /\ slugStatus = "available"
    /\ checks = {}
    /\ slugWrittenBy = [text |-> <<"a", "b", "d">>, stale |-> FALSE]
    /\ handler = IdleHandler
    /\ profiles = {OtherProfile, ProfileRow("u1", <<"a", "b", "d">>)}
    /\ places = {}
    /\ userPlaces = {}
    /\ memoryRows = {}
    /\ storageObjs = {}
    /\ mediaRows = {}
    /\ callLog = <<>>
    /\ redirected = None
    /\ NfIdle
    /\ MapIdle
    /\ PageIdle
    /\ EpIdle

DraftsNext ==
    \/ AddMemory
    \/ RemoveMemory
    \/ UpdateMemoryPhoto

\* the draft list of step 3 under addMemory, removeMemory and updateMemory
SpecDrafts == DraftsInit /\ [][DraftsNext]_vars

(***************************************************************************)
(* Properties of the slug-availability check (SpecSlug)                    *)
(***************************************************************************)
LiveCheckPending == \E c \in checks : ~c.cancelled

\* C1: once a later check B has started, an earlier check A writes
\* slugStatus no more, in every order of the timers and queries: the last
\* writer of slugStatus is never a cancelled check, it is the check of the
\* current slug text, and slugStatus is "checking" exactly while that check
\* is still awaiting (rev 2 runs checkSlug on step 2 only, so there the last
\* part is about step 2).
C1_LatestCheckWins ==
    /\ slugWrittenBy = [text |-> shareSlug, stale |-> FALSE]
    /\ LiveCheckPending => slugStatus = "checking"
    /\ (~LiveCheckPending /\ (rev = 1 \/ step = 2)) => slugStatus # "checking"

\* C1 witness: B's query has resolved and written its result while the
\* query of the superseded check A, for another text, is still outstanding
C1_Witness ==
    /\ ~LiveCheckPending
    /\ slugStatus \in {"available", "taken"}
    /\ \E c \in checks : c.cancelled /\ c.pc = "query" /\ c.norm # normalizedSlug

\* C8 as stated: every slug text whose normalized form has fewer than 3
\* characters has slugStatus "invalid".
C8_ShortIsInvalid ==
    Len(normalizedSlug) < MinSlugLen => slugStatus = "invalid"

\* C8 amended: a slug text that is not blank and whose normalized form has
\* fewer than 3 characters has slugStatus "invalid", a blank text has "idle",
\* and no checkSlug run for a normalized form under 3 characters reaches its
\* delay or its existence query.
C8_NonBlankShortIsInvalid ==
    /\ (Trim(shareSlug) # <<>> /\ Len(normalizedSlug) < MinSlugLen)
           => slugStatus = "invalid"
    /\ Trim(shareSlug) = <<>> => slugStatus = "idle"
    /\ \A c \in checks : Len(c.norm) >= MinSlugLen

\* C8 witness: raw "!!" (2 characters, normalized form empty) is invalid
C8_Witness ==
    /\ shareSlug = <<"!", "!">>
    /\ normalizedSlug = <<>>
    /\ slugStatus = "invalid"

(***************************************************************************)
(* Properties of the step transitions (SpecWizard)                         *)
(***************************************************************************)
\* how step 3 is entered: from step 2, by the continuation of the upsert of
\* a handleSaveProfileAndNext, with no conflict and the row stored
C6_EnterStep3 ==
    (step # 3 /\ step' = 3) =>
        /\ step = 2
        /\ handler.pc = "upsert"
        /\ handler.uid = uid
        /\ ~SlugConflict(handler.uid, handler.share_slug)
        /\ ProfileRow(uid, handler.share_slug) \in profiles'

\* C6: step 3 implies a uid and a stored profile row of that uid, and step 3
\* is entered only from step 2, by the continuation of a
\* handleSaveProfileAndNext whose upsert returned no error.
C6_Step3NeedsProfile ==
    /\ [](step = 3 => (uid # None /\ \E p \in profiles : p.id = uid))
    /\ [][C6_EnterStep3]_vars

\* C6 witness: step 3 reached with the profile row of uid stored
C6_Witness ==
    /\ step = 3
    /\ uid # None
    /\ \E p \in profiles : p.id = uid

\* C9 as stated: the wizard shows step 1 only while no account has been
\* created.
C9_NoStep1AfterAccount == uid # None => step = 2 \/ step = 3

\* the guard of C10, in the claim's words, over the values Next sees
C10_Guard(u, name, slug, status, city) ==
    /\ u # None
    /\ Trim(name) # <<>>
    /\ Len(normalizeSlug(slug)) >= 3
    /\ status # "checking"
    /\ status # "taken"
    /\ Trim(city) # <<>>

C10_Step ==
    /\ (step = 2 /\ handler.pc = "idle" /\ handler'.pc # "idle")
          => C10_Guard(uid, fullName, shareSlug, slugStatus, homeCity)
    /\ (step = 2 /\ step' = 3)
          => /\ handler.pc = "upsert"
             /\ C10_Guard(handler.uid, handler.full_name, handler.share_slug,
                          handler.slugStatus, handler.home_city)
    /\ (step = 2 /\ handler.pc = "idle"
          /\ ~C10_Guard(uid, fullName, shareSlug, slugStatus, homeCity))
          => (callLog' = callLog /\ step' # 3)

\* C10: the step-2 writes are issued, and step 2 moves to step 3, only if
\* uid is set, the trimmed full name is non-empty, the normalized slug has at
\* least 3 characters, slugStatus is neither checking nor taken and the
\* trimmed home city is non-empty when Next is pressed; otherwise no remote
\* call is made and the step does not advance.
C10_Step2Guard == [][C10_Step]_vars

\* C10 witness: the guard passed and the avatar upload has been issued
C10_Witness ==
    /\ step = 2
    /\ handler.pc = "avatar"
    /\ callLog = <<Call("uploadAvatar", 0)>>

(***************************************************************************)
(* Properties of handleFinish (SpecFinish)                                 *)
(***************************************************************************)
FinishPcs == {"placeFind", "placeInsert", "pin", "memory", "upload", "media"}

\* the remote calls of one draft, in the order of the loop body
ChainNext(a, b) ==
    \/ a = "placeFind" /\ b \in {"placeInsert", "pin"}
    \/ a = "placeInsert" /\ b = "pin"
    \/ a = "pin" /\ b = "memory"
    \/ a = "memory" /\ b = "upload"
    \/ a = "upload" /\ b = "media"

\* the log of one run: draft 1 first, each draft's chain in order, and the
\* first call of draft i+1 right after the media insert of draft i
LogOrdered(log) ==
    /\ log # <<>> => log[1] = Call("placeFind", 1)
    /\ \A n \in 1..(Len(log) - 1) :
         \/ /\ log[n + 1].draft = log[n].draft
            /\ ChainNext(log[n].op, log[n + 1].op)
         \/ /\ log[n + 1].draft = log[n].draft + 1
            /\ log[n].op = "media"
            /\ log[n + 1].op = "placeFind"

\* the draft with this key was written completely by this run: place, pin,
\* memory row, photo and media record
Committed(pl, up, mem, sto, med, run, userId, key) ==
    \E r \in mem :
        /\ r.run = run
        /\ r.key = key
        /\ r.user_id = userId
        /\ \E p \in pl : p.id = r.place_id
        /\ \E u \in up : u.user_id = userId /\ u.place_id = r.place_id
        /\ StoragePath(userId, r.id) \in sto
        /\ [memory_id |-> r.id, storage_path |-> StoragePath(userId, r.id)] \in med

DraftsCommitted(h, n, pl, up, mem, sto, med) ==
    \A j \in 1..n :
        Committed(pl, up, mem, sto, med, h.run, h.uid, h.drafts[j].key)

\* rows of a draft not yet reached by the loop of this run
NothingOfLaterDrafts(h) ==
    \A r \in memoryRows :
        r.run = h.run => \E j \in 1..h.i : h.drafts[j].key = r.key

C2_State ==
    handler.pc \in FinishPcs =>
        /\ LogOrdered(callLog)
        /\ callLog[Len(callLog)] = Call(handler.pc, handler.i)
        /\ DraftsCommitted(handler, handler.i - 1, places, userPlaces,
                           memoryRows, storageObjs, mediaRows)
        /\ NothingOfLaterDrafts(handler)

C2_Step ==
    /\ (handler.pc \in FinishPcs /\ handler'.pc = "idle" /\ redirected' = None)
          => /\ callLog' = callLog
             /\ DraftsCommitted(handler, handler.i - 1, places', userPlaces',
                                memoryRows', storageObjs', mediaRows')
    /\ (handler.pc \in FinishPcs /\ redirected' # None)
          => /\ handler.i = Len(handler.drafts)
             /\ DraftsCommitted(handler, Len(handler.drafts), places',
                                userPlaces', memoryRows', storageObjs',
                                mediaRows')
    /\ places \subseteq places'
    /\ memoryRows \subseteq memoryRows'
    /\ storageObjs \subseteq storageObjs'
    /\ mediaRows \subseteq mediaRows'
    /\ \A u \in userPlaces :
         \E v \in userPlaces' : v.user_id = u.user_id /\ v.place_id = u.place_id

\* C2: handleFinish processes the drafts in list order, one at a time, each
\* draft's calls in the order place, pin, memory row, photo upload, media
\* record; no call of draft i+1 is issued before the media record of draft i
\* is stored; when a call of draft k fails no further call is issued, and the
\* drafts before k stay committed: no row is ever removed.
C2_SequentialChains == [](C2_State) /\ [][C2_Step]_vars

\* C2 witness: a run over three drafts has failed on draft 2 after draft 1
\* was written completely
C2_Witness ==
    /\ handler.pc = "idle"
    /\ error # None
    /\ Len(memories) = 3
    /\ callLog # <<>>
    /\ callLog[Len(callLog)].draft = 2
    /\ Cardinality(mediaRows) = 1
    /\ Cardinality(memoryRows) = 2

\* MapboxMap after its first render with the props of the caller
MapInit ==
    /\ rev \in {1, 2}
    /\ flyToActive \in BOOLEAN
    /\ pins \in PinLists
    /\ activePinId \in PinIds \cup {None}
    /\ \E st \in {RunEffects(Unmounted, pins, activePinId, flyToActive)} :
         /\ mapRef = st.mapRef
         /\ markersRef = st.markersRef
         /\ elsRef = st.elsRef
         /\ mapMarkers = st.mapMarkers
         /\ zoom = st.zoom
         /\ camera = st.camera
         /\ lastOps = st.ops
    /\ WizMount
    /\ NfIdle
    /\ PageIdle
    /\ EpIdle

MapNext ==
    \/ MapRender
    \/ MapZoom

\* the MapboxMap component under the renders of its parent
SpecMap == MapInit /\ [][MapNext]_vars

(***************************************************************************)
(* Properties of the marker sync (SpecMap)                                 *)
(***************************************************************************)
\* C3: after every run of the marker sync the markers on the map are exactly
\* one per id of the current pin list: none for an id outside the list, no
\* two for one id, and each of them registered in markersRef.
C3_MarkersMatchPins ==
    mapRef =>
        /\ {m.pinId : m \in mapMarkers} = PinIdsOf(pins)
        /\ \A m1, m2 \in mapMarkers : m1.pinId = m2.pinId => m1 = m2
        /\ DOMAIN markersRef = PinIdsOf(pins)
        /\ \A m \in mapMarkers : markersRef[m.pinId] = m.h

\* C3 witness: a sync that dropped one pin and added another
C3_Witness ==
    /\ mapRef
    /\ Len(pins) = 2
    /\ lastOps.removed # {}
    /\ lastOps.created # {}
    /\ lastOps.removed \cap PinIdsOf(pins) = {}

ActiveIds(onMap) == {m.pinId : m \in {x \in onMap : x.active}}

C4_Step ==
    (/\ mapRef /\ mapRef'
     /\ flyToActive
     /\ pins' = pins
     /\ activePinId' # activePinId
     /\ activePinId \in PinIdsOf(pins)
     /\ activePinId' \in PinIdsOf(pins))
    => /\ lastOps'.removed = {}
       /\ lastOps'.created = {}
       /\ ActiveIds(mapMarkers) = {activePinId}
       /\ ActiveIds(mapMarkers') = {activePinId'}
       /\ lastOps'.flyTo = 1

\* C4 as stated: with the same pin list and only activePinId changing from a
\* to b (both in the list, flyToActive set) no marker is removed, none is
\* created, the active styling moves from the marker of a to the marker of b
\* and exactly one flyTo is issued.
C4_ActiveChangeKeepsMarkers == [][C4_Step]_vars

C5_Step ==
    (mapRef /\ mapRef' /\ lastOps' # lastOps) =>
        /\ \A id \in PinIdsOf(pins) \cap PinIdsOf(pins') :
             /\ id \notin lastOps'.removed
             /\ id \notin lastOps'.created
             /\ markersRef'[id] = markersRef[id]
        /\ lastOps'.created \subseteq PinIdsOf(pins') \ PinIdsOf(pins)

\* C5 as stated: when the pin list changes, every id in both the old and the
\* new list keeps its marker (not removed, not created again), and markers
\* are created only for ids new to the list.
C5_KeptPinsKeepMarkers == [][C5_Step]_vars

(***************************************************************************)
(* Slug normalisation applied twice.  The signup page hands normalizedSlug *)
(* (normalizeSlug of the typed text) to upsertProfile, which applies       *)
(* slugify to it; nfPc names the function the harness applies.             *)
(***************************************************************************)
NormFunctions == {"normalizeSlug", "slugify"}

Normalize(f, s) == IF f = "normalizeSlug" THEN normalizeSlug(s) ELSE slugify(s)

NfInit ==
    /\ rev = 1
    /\ nfInput \in NormInputs
    /\ nfOnce = <<>>
    /\ nfTwice = <<>>
    /\ nfPc = "raw"
    /\ WizMount
    /\ MapIdle
    /\ PageIdle
    /\ EpIdle

\* f(s)
NfApply ==
    /\ nfPc = "raw"
    /\ \E f \in NormFunctions :
         /\ nfOnce' = Normalize(f, nfInput)
         /\ nfPc' = f
    /\ UNCHANGED <<rev, nfInput, nfTwice, wizVars, mapVars, pageVars, epVars>>

\* f(f(s))
NfApplyAgain ==
    /\ nfPc \in NormFunctions
    /\ nfTwice' = Normalize(nfPc, nfOnce)
    /\ nfPc' = "twice"
    /\ UNCHANGED <<rev, nfInput, nfOnce, wizVars, mapVars, pageVars, epVars>>

NfNext ==
    \/ NfApply
    \/ NfApplyAgain

SpecNorm == NfInit /\ [][NfNext]_vars

\* C7 as stated: normalizing a normalized slug changes nothing, for
\* normalizeSlug and for slugify: f(f(s)) = f(s) for every input s.
C7_Idempotent == nfPc = "twice" => nfTwice = nfOnce

(***************************************************************************)
(* Properties of repeated and shrinking syncs (SpecMap)                    *)
(***************************************************************************)
\* what a marker shows: the pin it stands for, where, and how it is styled
MarkerView(onMap) ==
    {[pinId |-> m.pinId, lngLat |-> m.lngLat, active |-> m.active] : m \in onMap}

TableHandles(table) == {table[id] : id \in DOMAIN table}

C11_Step ==
    (/\ mapRef
     /\ pins' = pins
     /\ activePinId' = activePinId
     /\ MapRenderAs(pins', activePinId'))
    => /\ MarkerView(mapMarkers') = MarkerView(mapMarkers)
       /\ Cardinality(mapMarkers') = Cardinality(mapMarkers)
       /\ DOMAIN markersRef' = DOMAIN markersRef
       /\ Handles(mapMarkers') \subseteq TableHandles(markersRef')

Touched(ops) == ops.removed \cup ops.created \cup ops.moved \cup ops.styled

\* a step of the mounted component that is not the user's zoom is a render
C12_Step ==
    (mapRef /\ ~MapZoom) =>
        \A id \in PinIds :
            /\ (id \in PinIdsOf(pins) \ PinIdsOf(pins'))
                  => /\ id \in lastOps'.removed
                     /\ id \notin DOMAIN markersRef'
                     /\ \A m \in mapMarkers' : m.pinId # id
            /\ (id \notin PinIdsOf(pins) /\ id \notin PinIdsOf(pins'))
                  => /\ id \notin Touched(lastOps')
                     /\ id \notin DOMAIN markersRef'
                     /\ \A m \in mapMarkers' : m.pinId # id
            /\ (id \notin PinIdsOf(pins) /\ id \in PinIdsOf(pins'))
                  => /\ id \in lastOps'.created
                     /\ id \notin lastOps'.moved
                     /\ id \in DOMAIN markersRef'
                     /\ Cardinality({m \in mapMarkers' : m.pinId = id}) = 1

\* C12: the sync after a pin id was dropped from the list removes its marker
\* from the map and from the marker table; syncs while the id stays away do
\* nothing for it; the sync after the id came back creates a marker for it.
C12_DroppedPinRemoved == [][C12_Step]_vars

\* C12 witness: a sync of the reconciling revision that removed the marker
\* of a dropped id and kept the marker of another
C12_Witness ==
    /\ rev = 2
    /\ lastOps.removed # {}
    /\ lastOps.moved # {}
    /\ lastOps.created = {}
    /\ lastOps.removed \cap DOMAIN markersRef = {}

(***************************************************************************)
(* Properties of the draft list (SpecDrafts, SpecFinish)                   *)
(***************************************************************************)
\* prev without its i-th draft
WithoutIndex(prev, i) ==
    [j \in 1..(Len(prev) - 1) |-> IF j < i THEN prev[j] ELSE prev[j + 1]]

C13_State ==
    /\ Len(memories) >= 1
    /\ Len(memories) <= MAX_MEMORIES
    /\ \A i, j \in DOMAIN memories : memories[i].key = memories[j].key => i = j
    /\ Len(memories) = MAX_MEMORIES
          => addMemory(memories, NewKey(memories)) = memories
    /\ Len(memories) = 1
          => removeMemory(memories, memories[1].key) = memories

C13_Step ==
    \/ Len(memories') = Len(memories)
    \/ /\ Len(memories) < MAX_MEMORIES
       /\ \E k \in 1..MaxKey :
            /\ k \notin DraftKeys(memories)
            /\ memories' = Append(memories, EmptyDraft(k))
    \/ /\ Len(memories) > 1
       /\ \E i \in DOMAIN memories : memories' = WithoutIndex(memories, i)

\* C13: under addMemory, removeMemory and updateMemory the draft list always
\* has between 1 and MAX_MEMORIES drafts with distinct keys; a step that
\* lengthens it appends one empty draft with a new key and happens below the
\* cap only, a step that shortens it deletes exactly one draft and happens
\* above one draft only; addMemory at the cap and removeMemory of the only
\* draft return the list unchanged.
C13_DraftCountBounded == [](C13_State) /\ [][C13_Step]_vars

\* C13 witness: the list is at the cap after a draft was removed and another
\* added
C13_Witness ==
    /\ Len(memories) = MAX_MEMORIES
    /\ \E i \in DOMAIN memories : memories[i].key > MAX_MEMORIES

\* the patches a draft card can send
CardPatches ==
    WizardPatches \cup PhotoPatches \cup
    { [city |-> <<>>, region |-> <<>>], [description |-> <<>>],
      [dateLocal |-> FALSE] }

C14_State ==
    \A k \in DraftKeys(memories) \cup {NewKey(memories)}, patch \in CardPatches :
        \A r \in {updateMemory(memories, k, patch)} :
        /\ Len(r) = Len(memories)
        /\ \A i \in DOMAIN memories :
             /\ r[i].key = memories[i].key
             /\ memories[i].key # k => r[i] = memories[i]
             /\ memories[i].key = k
                   => \A f \in DOMAIN memories[i] :
                        r[i][f] = IF f \in DOMAIN patch THEN patch[f]
                                  ELSE memories[i][f]
        /\ k \notin DraftKeys(memories) => r = memories

C14_Step ==
    UpdateMemoryPhoto =>
        /\ Len(memories') = Len(memories)
        /\ \E i \in DOMAIN memories, patch \in CardPatches :
             /\ \A j \in DOMAIN memories : j # i => memories'[j] = memories[j]
             /\ \A f \in DOMAIN memories[i] :
                  f \notin DOMAIN patch => memories'[i][f] = memories[i][f]
             /\ \A f \in DOMAIN patch : memories'[i][f] = patch[f]
             /\ memories'[i].key = memories[i].key

\* C14: updateMemory(key, patch) changes only the patched fields of the draft
\* with that key: the number of drafts, their order, their keys and all
\* fields of the other drafts stay, and nothing changes when no draft has
\* the key.
C14_UpdateTouchesOneDraft == [](C14_State) /\ [][C14_Step]_vars

\* C14 witness: the first draft was removed, and the photo input of the draft
\* that is now first has patched it, the later drafts keeping what they had
C14_Witness ==
    /\ step = 3
    /\ Len(memories) >= 2
    /\ memories[1].key # 1
    /\ memories[1].file
    /\ \A i \in DOMAIN memories : i # 1 => memories[i] = EmptyDraft(memories[i].key)

(***************************************************************************)
(* Properties of the guard of handleFinish (SpecFinish)                    *)
(***************************************************************************)
\* the guard of C15, in the claim's words
C15_Guard(u, ms) ==
    /\ u # None
    /\ \A i \in DOMAIN ms :
         /\ ms[i].city # <<>>
         /\ ms[i].region # <<>>
         /\ (rev = 2 => ms[i].description # <<>>)
         /\ ms[i].file

\* city and region given, no description, no photo
AustinDraft ==
    [key |-> 1, city |-> <<"a">>, region |-> <<"x">>, description |-> <<>>,
     dateLocal |-> TRUE, file |-> FALSE]

C15_State ==
    /\ ~DraftValid(AustinDraft)
    /\ DraftValid(MergePatch(MergePatch(AustinDraft, [file |-> TRUE]),
                             [description |-> <<"d">>]))

C15_Step ==
    (handler.pc = "idle" /\ ~C15_Guard(uid, memories)) =>
        /\ handler'.pc = "idle"
        /\ callLog' = callLog
        /\ step' = step
        /\ ~loading'
        /\ places' = places
        /\ memories' = memories => error' # None

C16_MentionsSlug(f) ==
    \E i \in DOMAIN f.pieces :
        f.pieces[i] \in {"share_slug", "duplicate", "Duplicate"}

C16_Step ==
    \A f \in UpsertFailures :
        UpsertProfileResolvesWith(FALSE, f) =>
            /\ step = 2
            /\ step' = 2
            /\ error' = IF C16_MentionsSlug(f)
                        THEN "This slug is already taken. Try a different one."
                        ELSE f.message

\* C16: when the profile upsert of step 2 fails the wizard stays on step 2;
\* the error shown is the slug-taken message when the failure mentions the
\* slug field or a duplicate key, and the failure's own message otherwise.
C16_UpsertFailureMessage == [][C16_Step]_vars

\* C16 witness: an upsert has failed with a message that names neither the
\* slug nor a duplicate, and the wizard shows it on step 2
C16_Witness ==
    /\ step = 2
    /\ handler.pc = "idle"
    /\ ~loading
    /\ error = "Failed to fetch"
    /\ \A p \in profiles : p.id # "u1"

(***************************************************************************)
(* Properties of a failed slug read (SpecSlug)                             *)
(***************************************************************************)
\* with the status "available" the guard of step 2 depends on the other
\* fields only
C17_State ==
    (/\ step = 2
     /\ slugStatus = "available"
     /\ uid # None
     /\ Trim(fullName) # <<>>
     /\ Trim(homeCity) # <<>>
     /\ Len(normalizedSlug) >= MinSlugLen) => canGoNext

C17_Step ==
    \A c \in checks :
        (~c.cancelled /\ SlugQueryResolvesWith(c, TRUE)) =>
            /\ slugStatus' = "available"
            /\ ~(slugStatus' = "taken" \/ slugStatus' = "checking")

\* C17: when the existence query of the latest slug check resolves with an
\* error, slugStatus becomes "available" (neither "checking" nor "taken"),
\* and the guard of step 2 is not blocked by the slug.
C17_FailedReadIsAvailable == [](C17_State) /\ [][C17_Step]_vars

\* C17 witness: the latest check has ended, the slug typed is held by another
\* profile, and the status says "available": its read had failed
C17_Witness ==
    /\ step = 2
    /\ checks = {}
    /\ slugStatus = "available"
    /\ slugWrittenBy = [text |-> shareSlug, stale |-> FALSE]
    /\ \E p \in profiles : p.id # uid /\ p.share_slug = normalizedSlug
    /\ canGoNext

(***************************************************************************)
(* Properties of the loading check of the step handlers (SpecWizard)       *)
(***************************************************************************)
\* a handler awaiting a remote call is covered by loading
C18_State == handler.pc # "idle" => loading

C18_Step ==
    /\ (loading /\ (HandleCreateAccount \/ HandleSaveProfileAndNext
                      \/ HandleFinish))
          => /\ callLog' = callLog
             /\ handler' = handler
             /\ UNCHANGED dbVars
    /\ (handler.pc # "idle" /\ callLog' # callLog)
          => /\ Len(callLog') = Len(callLog) + 1
             /\ SubSeq(callLog', 1, Len(callLog)) = callLog
    /\ (handler'.pc # "idle" /\ Len(callLog') = 1 /\ callLog' # callLog)
          => handler.pc = "idle" /\ ~loading

\* C18: at most one of handleCreateAccount, handleSaveProfileAndNext and
\* handleFinish is in flight: a handler in flight has loading = TRUE, a press
\* of Next or Create my map while loading issues no remote call and starts
\* no handler, and the calls issued while a handler is in flight are the
\* next calls of that handler.
C18_OneHandlerInFlight == [](C18_State) /\ [][C18_Step]_vars

\* C18 witness: handleSaveProfileAndNext is in flight with loading set, and
\* the calls issued since it started are its own two
C18_Witness ==
    /\ step = 2
    /\ loading
    /\ handler.pc = "upsert"
    /\ callLog = <<Call("uploadAvatar", 0), Call("upsertProfile", 0)>>

(***************************************************************************)
(* Properties of the end of a step handler (SpecStepsLive)                 *)
(***************************************************************************)
C19_Live == loading ~> (~loading /\ handler.pc = "idle")

\* the messages of the errors the remote calls of the handlers reject with
C19_Messages ==
    { "signUp error", "signIn error", "Could not create session after signup.",
      "upload error", "places select error", "places insert error",
      "user_places upsert error", "memories insert error",
      "memory_media insert error", "Invalid time value" }

C19_Step ==
    /\ (handler.pc # "idle" /\ handler'.pc = "idle") => ~loading'
    /\ (handler.pc # "idle" /\ \E msg \in C19_Messages : HandlerThrows(msg))
          => /\ error' # None
             /\ step' = step
             /\ uid' = uid
             /\ redirected' = None
             /\ handler.pc \in {"signUp", "signIn"}
                   => step' = 1 /\ uid' = None
    /\ \A f \in UpsertFailures :
          UpsertProfileResolvesWith(FALSE, f)
            => error' # None /\ step' = 2 /\ ~loading' /\ uid' = uid

C20_ComponentState ==
    <<step, loading, error, uid, email, password, fullName, shareSlug,
      homeCity, avatarFile, memories, slugStatus>>

\* C20: once the wizard is unmounted or the user has navigated away, no
\* asynchronous flow still in flight (the slug check, a step handler awaiting
\* a remote call) writes component state.
C20_NoWriteAfterLeaving ==
    [][redirected # None => UNCHANGED C20_ComponentState]_vars

\* the slug check alone: its closures are cancelled by the cleanup
C20_SlugCheckSilent ==
    [][redirected # None => UNCHANGED <<slugStatus, slugWrittenBy>>]_vars

(***************************************************************************)
(* Properties of the flyTo effect (SpecMap)                                *)
(***************************************************************************)
\* the zoom map.getZoom() returns when the flyTo effect of a render runs:
\* the zoom of the map kept, or the zoom a new map is created with
C21_ZoomBefore == IF mapRef /\ rev = 2 THEN zoom ELSE InitialZoom

\* the last render moved the camera: it was asked to, for a pin of its list,
\* and the camera is at that pin
C21_State ==
    lastOps.flyTo # 0 =>
        /\ flyToActive
        /\ \E i \in DOMAIN pins :
             pins[i].id = activePinId /\ camera = pins[i].lngLat

C21_Step ==
    ~MapZoom =>
        /\ lastOps'.flyTo = 1
             <=> (flyToActive /\ activePinId' \in PinIdsOf(pins'))
        /\ lastOps'.flyTo = 1 =>
             /\ zoom' = Max(C21_ZoomBefore, FlyToMinZoom)
             /\ zoom' >= C21_ZoomBefore
             /\ C21_ZoomBefore < FlyToMinZoom => zoom' = FlyToMinZoom
        /\ lastOps'.flyTo = 0 => zoom' = C21_ZoomBefore

\* C21: MapboxMap moves the camera only when flyToActive is set and
\* activePinId is the id of a pin of the list; the move goes to that pin's
\* [lng, lat] with zoom max(current zoom, 4): it raises a lower zoom to 4 and
\* does not lower a higher one.
C21_FlyToActive == [](C21_State) /\ [][C21_Step]_vars

\* C21 witness: the map kept across renders was zoomed in by hand beyond 4,
\* and a render then moved the camera to the moved pin and kept that zoom
C21_Witness ==
    /\ rev = 2
    /\ lastOps.flyTo = 1
    /\ zoom = FlyToMinZoom + 10
    /\ camera = <<1, 2>>

\* ======================================================================
\* The profile page: src/worldmap/app/[slug]/page.tsx (server render) and
\* PublicProfileClient of src/unnamed/part_001 (client state and handlers)
\* ======================================================================

MaxPageMemories == 2
MaxClicks == 2

\* profile.id of the profile shown; the owner is the viewer (canEdit)
profileId == "u1"

\* undefined / null as a place id
NoPlace == 0

\* the places of the database, and the ones stored without lat and lng
\* (ensurePlace of the signup wizard inserts city, region, country and
\* normalized_key only)
PagePlaceIds == {1, 2}

BarePlaces == {1}

PagePlace(pl, coords) == [id |-> pl, hasCoords |-> coords]

PageMemory(m, pl) == [id |-> m, user_id |-> profileId, place_id |-> pl]

\* memories .eq("user_id", profileId).eq("place_id", placeId)
MemoriesAt(rows, pl) ==
    {r \in rows : r.user_id = profileId /\ r.place_id = pl}

\* user_places .eq("user_id", profileId)
PinnedPlaces(rows) == {r.place_id : r \in {x \in rows : x.user_id = profileId}}

\* .delete().eq("user_id", profileId).eq("place_id", placeId)
DeletePin(rows, pl) ==
    {r \in rows : ~(r.user_id = profileId /\ r.place_id = pl)}

\* the orders in which a query without a total order can return a set
RECURSIVE OrdersOf(_)
OrdersOf(S) ==
    IF S = {} THEN {<<>>}
    ELSE UNION {{<<x>> \o t : t \in OrdersOf(S \ {x})} : x \in S}

\* nextPins.sort((a, b) => a.title.localeCompare(b.title)): a place's title
\* is ordered as its id
RECURSIVE SortByTitle(_)
SortByTitle(S) ==
    IF S = {} THEN <<>>
    ELSE LET m == CHOOSE x \in S : \A y \in S : x <= y
         IN <<m>> \o SortByTitle(S \ {m})

\* pins.map(...).filter(Boolean): a pin without numeric lat or lng is dropped
RECURSIVE pinCards(_, _)
pinCards(order, rows) ==
    IF order = <<>> THEN <<>>
    ELSE LET pl == CHOOSE r \in rows : r.id = Head(order)
         IN (IF pl.hasCoords THEN <<Head(order)>> ELSE <<>>)
                \o pinCards(Tail(order), rows)

\* pins.find((p) => p.pinned)?.place_id ?? pins[0]?.place_id ?? null, on a
\* list ordered by pinned desc
initialActivePlaceId(order) == IF order = <<>> THEN NoPlace ELSE order[1]

\* The default-active effect, run after a render that changed pinState:
\*   if (!activePinId && pinState.length > 0) { setActivePinId(first);
\*                                              fetchMemoriesForPin(first) }
DefaultActive(ps, active) ==
    IF active = NoPlace /\ ps # <<>> THEN ps[1] ELSE active

DefaultFetch(ps, active, fetches) ==
    IF active = NoPlace /\ ps # <<>> THEN fetches \cup {ps[1]} ELSE fetches

\* the rows of a database in which place pl has cnt[pl] memories
RECURSIVE MemoryIdsBefore(_, _)
MemoryIdsBefore(cnt, pl) ==
    IF pl = 1 THEN 0 ELSE cnt[pl - 1] + MemoryIdsBefore(cnt, pl - 1)

SeedMemories(cnt) ==
    UNION {{PageMemory(MemoryIdsBefore(cnt, pl) + k, pl) : k \in 1..cnt[pl]}
              : pl \in PagePlaceIds}

SeedCounts ==
    {cnt \in [PagePlaceIds -> 0..MaxPageMemories] :
        Cardinality(SeedMemories(cnt)) <= MaxPageMemories}

\* The page as the server renders it and the client mounts it.
PageInit ==
    /\ rev = 2
    /\ step = 1
    /\ loading = FALSE
    /\ error = None
    /\ uid = profileId
    /\ email = <<>>
    /\ password = <<>>
    /\ fullName = <<>>
    /\ shareSlug = <<>>
    /\ homeCity = <<>>
    /\ avatarFile = FALSE
    /\ memories = <<EmptyDraft(1)>>
    /\ slugStatus = "idle"
    /\ checks = {}
    /\ slugWrittenBy = NoWriter
    /\ handler = IdleHandler
    /\ profiles = {OtherProfile, ProfileRow(profileId, <<"a", "b", "d">>)}
    /\ callLog = <<>>
    /\ redirected = None
    /\ NfIdle
    /\ MapIdle
    /\ EpIdle
    /\ \E bare \in SUBSET BarePlaces, cnt \in SeedCounts :
         /\ places = {PagePlace(pl, pl \notin bare) : pl \in PagePlaceIds}
         /\ memoryRows = SeedMemories(cnt)
         /\ mediaRows = {[memory_id |-> r.id,
                          storage_path |-> StoragePath(profileId, r.id)]
                             : r \in SeedMemories(cnt)}
         /\ storageObjs = {StoragePath(profileId, r.id) : r \in SeedMemories(cnt)}
         /\ \E pinned \in SUBSET PagePlaceIds :
              /\ \A pl \in PagePlaceIds : cnt[pl] > 0 => pl \in pinned
              /\ userPlaces = {[user_id |-> profileId, place_id |-> pl,
                                label |-> None] : pl \in pinned}
              /\ \E order \in OrdersOf(pinned) :
                   /\ pgPins = pinCards(order, places)
                   /\ pgActive = initialActivePlaceId(order)
                   /\ pgCards = {r.id : r \in
                         MemoriesAt(memoryRows, initialActivePlaceId(order))}
                   /\ pgCardsFor = initialActivePlaceId(order)
                   \* the default-active effect of the first render
                   /\ pgFetches = DefaultFetch(pgPins, pgActive, {})
    /\ pgFlow = NoFlow
    /\ pgClicks = 0

pageFrame ==
    <<rev, nfVars, mapVars, epVars, step, loading, error, uid, email,
      password, fullName, shareSlug, homeCity, avatarFile, memories,
      slugStatus, checks, slugWrittenBy, handler, profiles, callLog,
      redirected, places>>

pageDb == <<userPlaces, memoryRows, storageObjs, mediaRows>>

\* onSelectPin={(id) => { setActivePinId(id); fetchMemoriesForPin(id); }}
Click ==
    /\ pgClicks < MaxClicks
    /\ pgClicks' = pgClicks + 1

SelectPin ==
    \E i \in DOMAIN pgPins :
        /\ Click
        /\ pgActive' = pgPins[i]
        /\ pgFetches' = pgFetches \cup {pgPins[i]}
        /\ UNCHANGED <<pageFrame, pageDb, pgPins, pgCards, pgCardsFor, pgFlow>>

\* fetchMemoriesForPin after its awaits: setMemories of the rows read, or
\* setMemories([]) on memErr
FetchShows(rows, pl, failed) ==
    IF failed THEN {} ELSE {r.id : r \in MemoriesAt(rows, pl)}

FetchResolvesWith(pl, failed) ==
    /\ pl \in pgFetches
    /\ pgFetches' = pgFetches \ {pl}
    /\ pgCards' = FetchShows(memoryRows, pl, failed)
    /\ pgCardsFor' = pl
    /\ UNCHANGED <<pgClicks, pageFrame, pageDb, pgPins, pgActive, pgFlow>>

FetchResolves == \E pl \in PagePlaceIds, failed \in BOOLEAN :
    FetchResolvesWith(pl, failed)

\* ---- the handlers with remote calls: one is in flight at a time ---------

Flow(kind, pc, active, mem, place) ==
    [kind |-> kind, pc |-> pc, active |-> active, mem |-> mem,
     place |-> place, paths |-> {}, read |-> {}]

FlowAt(kind, pc) == pgFlow.pc = pc /\ pgFlow.kind = kind

\* onDeleteMemory: window.confirm accepted, deleteMemory(memory.id,
\* memory.placeId) starts; the closure holds the activePinId of this render
DeleteClick ==
    /\ pgFlow.pc = "idle"
    /\ Click
    /\ \E m \in pgCards :
         pgFlow' = Flow("delete", "mediaSelect", pgActive, m, pgCardsFor)
    /\ UNCHANGED <<pageFrame, pageDb, pgPins, pgActive, pgCards, pgCardsFor,
                   pgFetches>>

\* a remote call of deleteMemory returned an error: throw, caught by
\* onDeleteMemory (console.warn, window.alert)
DeleteThrows ==
    /\ pgFlow.pc \in {"mediaSelect", "storageRemove", "mediaDelete",
                      "memDelete", "count", "pinDelete"}
    /\ pgFlow' = NoFlow
    /\ UNCHANGED <<pgClicks, pageFrame, pageDb, pgPins, pgActive, pgCards, pgCardsFor,
                   pgFetches>>

\* memory_media .select("id, storage_path").eq("memory_id", memoryId)
MediaPaths(rows, m) == {r.storage_path : r \in {x \in rows : x.memory_id = m}}

DeleteMediaSelect ==
    /\ FlowAt("delete", "mediaSelect")
    /\ \E paths \in {MediaPaths(mediaRows, pgFlow.mem)} :
         pgFlow' = [pgFlow EXCEPT !.paths = paths,
                       !.pc = IF paths # {} THEN "storageRemove"
                                            ELSE "mediaDelete"]
    /\ UNCHANGED <<pgClicks, pageFrame, pageDb, pgPins, pgActive, pgCards, pgCardsFor,
                   pgFetches>>

\* storage.from("memory-media").remove(paths)
DeleteStorageRemove ==
    /\ FlowAt("delete", "storageRemove")
    /\ storageObjs' = storageObjs \ pgFlow.paths
    /\ pgFlow' = [pgFlow EXCEPT !.pc = "mediaDelete"]
    /\ UNCHANGED <<pgClicks, pageFrame, userPlaces, memoryRows, mediaRows, pgPins,
                   pgActive, pgCards, pgCardsFor, pgFetches>>

\* memory_media .delete().eq("memory_id", memoryId)
DeleteMediaRows ==
    /\ FlowAt("delete", "mediaDelete")
    /\ mediaRows' = {r \in mediaRows : r.memory_id # pgFlow.mem}
    /\ pgFlow' = [pgFlow EXCEPT !.pc = "memDelete"]
    /\ UNCHANGED <<pgClicks, pageFrame, userPlaces, memoryRows, storageObjs, pgPins,
                   pgActive, pgCards, pgCardsFor, pgFetches>>

\* memories .delete().eq("id", memoryId).eq("user_id", profileId)
DeleteMemoryRow ==
    /\ FlowAt("delete", "memDelete")
    /\ memoryRows' = {r \in memoryRows :
                         ~(r.id = pgFlow.mem /\ r.user_id = profileId)}
    /\ pgFlow' = [pgFlow EXCEPT
                     !.pc = IF pgFlow.place # NoPlace THEN "count" ELSE "pinsRead"]
    /\ UNCHANGED <<pgClicks, pageFrame, userPlaces, storageObjs, mediaRows, pgPins,
                   pgActive, pgCards, pgCardsFor, pgFetches>>

\* if (!count || count <= 0): the place has no memory of the user left
PinIsEmptyMutNever(count) == FALSE

PinIsEmpty(count) == count <= 0

DeleteCount ==
    /\ FlowAt("delete", "count")
    /\ pgFlow' = [pgFlow EXCEPT
          !.pc = IF PinIsEmpty(Cardinality(MemoriesAt(memoryRows, pgFlow.place)))
                 THEN "pinDelete" ELSE "pinsRead"]
    /\ UNCHANGED <<pgClicks, pageFrame, pageDb, pgPins, pgActive, pgCards, pgCardsFor,
                   pgFetches>>

DeletePinRow ==
    /\ FlowAt("delete", "pinDelete")
    /\ userPlaces' = DeletePin(userPlaces, pgFlow.place)
    /\ pgFlow' = [pgFlow EXCEPT !.pc = "pinsRead"]
    /\ UNCHANGED <<pgClicks, pageFrame, memoryRows, storageObjs, mediaRows, pgPins,
                   pgActive, pgCards, pgCardsFor, pgFetches>>

\* ---- refreshPins and what each handler does with its result -------------

\* refreshPins: if (!count || count <= 0) the pin is dropped from the list
\* and its user_places row deleted; a failed count reads as no count
RefreshDrops(count, failed) == failed \/ count <= 0

\* the places refreshPins keeps, of the places it read
RefreshKeeps(read, rows, failedCounts) ==
    {pl \in read :
        ~RefreshDrops(Cardinality(MemoriesAt(rows, pl)), pl \in failedCounts)}

\* What the handler does once refreshPins has returned nextPins; st holds
\* the component state [active, cards, cardsFor, fetches] before.
\* onPinsChanged
AfterPinsChanged(st, closureActive, nextPins) ==
    IF nextPins = <<>>
    THEN [st EXCEPT !.active = NoPlace, !.cards = {}, !.cardsFor = NoPlace]
    ELSE IF closureActive # NoPlace
         THEN [st EXCEPT !.fetches = @ \cup {closureActive}]
         ELSE st

\* onDeleteMemory
AfterDelete(st, closureActive, nextPins) ==
    IF closureActive # NoPlace /\ closureActive \in SeqToSet(nextPins)
    THEN [st EXCEPT !.fetches = @ \cup {closureActive}]
    ELSE IF nextPins = <<>>
         THEN [st EXCEPT !.active = NoPlace, !.cards = {}, !.cardsFor = NoPlace]
         ELSE [st EXCEPT !.active = nextPins[1],
                         !.fetches = @ \cup {nextPins[1]}]

\* onSaved of the edit modal
AfterSaved(st, placeId) ==
    [st EXCEPT !.active = placeId, !.fetches = @ \cup {placeId}]

AfterRefresh(st, flow, nextPins) ==
    IF flow.kind = "delete" THEN AfterDelete(st, flow.active, nextPins)
    ELSE IF flow.kind = "changed"
         THEN AfterPinsChanged(st, flow.active, nextPins)
         ELSE AfterSaved(st, flow.place)

PageState ==
    [active |-> pgActive, cards |-> pgCards, cardsFor |-> pgCardsFor,
     fetches |-> pgFetches]

\* user_places read of refreshPins; on error it returns [] and pinState is
\* not set
RefreshReadWith(ok) ==
    /\ pgFlow.pc = "pinsRead"
    /\ IF ok
       THEN /\ pgFlow' = [pgFlow EXCEPT !.pc = "pinsLoop",
                                        !.read = PinnedPlaces(userPlaces)]
            /\ UNCHANGED <<pgActive, pgCards, pgCardsFor, pgFetches>>
       ELSE /\ pgFlow' = NoFlow
            /\ \E st \in {AfterRefresh(PageState, pgFlow, <<>>)} :
                 /\ pgActive' = st.active
                 /\ pgCards' = st.cards
                 /\ pgCardsFor' = st.cardsFor
                 /\ pgFetches' = st.fetches
    /\ UNCHANGED <<pgClicks, pageFrame, pageDb, pgPins>>

RefreshRead == \E ok \in BOOLEAN : RefreshReadWith(ok)

\* the count loop of refreshPins, setPinState(nextPins), the rest of the
\* handler, and the default-active effect of the render that follows
RefreshLoop ==
    /\ pgFlow.pc = "pinsLoop"
    /\ \E failedCounts \in SUBSET pgFlow.read :
       \E keeps \in {RefreshKeeps(pgFlow.read, memoryRows, failedCounts)} :
       \E nextPins \in {SortByTitle(keeps)} :
       \E st \in {AfterRefresh(PageState, pgFlow, nextPins)} :
         /\ userPlaces' = {r \in userPlaces :
                ~(r.user_id = profileId /\ r.place_id \in pgFlow.read \ keeps)}
         /\ pgPins' = nextPins
         /\ pgActive' = DefaultActive(nextPins, st.active)
         /\ pgFetches' = DefaultFetch(nextPins, st.active, st.fetches)
         /\ pgCards' = st.cards
         /\ pgCardsFor' = st.cardsFor
    /\ pgFlow' = NoFlow
    /\ UNCHANGED <<pgClicks, pageFrame, memoryRows, storageObjs, mediaRows>>

\* ---- AddMemoryModal.submitMemory succeeding, and its callbacks ----------

FreshMemoryIds ==
    {m \in 1..MaxPageMemories :
        m \notin {r.id : r \in memoryRows} \cup pgCards}

\* create: ensureUserPin, memories insert, uploadMedia; then
\* onCreated -> onPinsChanged() and onSelectCreatedPin -> onSelectPin,
\* onPinSelectedAfterCreate
CreateMemory ==
    /\ pgFlow.pc = "idle"
    /\ Click
    /\ \E pl \in PagePlaceIds, m \in FreshMemoryIds :
         /\ m = CHOOSE x \in FreshMemoryIds : \A y \in FreshMemoryIds : x <= y
         /\ userPlaces' = UpsertPin(userPlaces, profileId, pl, None)
         /\ memoryRows' = memoryRows \cup {PageMemory(m, pl)}
         /\ storageObjs' = storageObjs \cup {StoragePath(profileId, m)}
         /\ mediaRows' = mediaRows \cup
                {[memory_id |-> m, storage_path |-> StoragePath(profileId, m)]}
         /\ pgFlow' = Flow("changed", "pinsRead", pgActive, m, pl)
         /\ pgActive' = pl
         /\ pgFetches' = pgFetches \cup {pl}
    /\ UNCHANGED <<pageFrame, pgPins, pgCards, pgCardsFor>>

\* edit: the memory of a card is moved to place pl (ensureUserPin, memories
\* update); then onSaved(placeId)
EditMemory ==
    /\ pgFlow.pc = "idle"
    /\ Click
    /\ \E pl \in PagePlaceIds, m \in pgCards :
         /\ \E r \in memoryRows : r.id = m
         /\ userPlaces' = UpsertPin(userPlaces, profileId, pl, None)
         /\ memoryRows' = {IF r.id = m THEN PageMemory(m, pl) ELSE r
                              : r \in memoryRows}
         /\ pgFlow' = Flow("saved", "pinsRead", pgActive, m, pl)
    /\ UNCHANGED <<pageFrame, storageObjs, mediaRows, pgPins, pgActive,
                   pgCards, pgCardsFor, pgFetches>>

PageNext ==
    \/ SelectPin
    \/ FetchResolves
    \/ DeleteClick
    \/ DeleteThrows
    \/ DeleteMediaSelect
    \/ DeleteStorageRemove
    \/ DeleteMediaRows
    \/ DeleteMemoryRow
    \/ DeleteCount
    \/ DeletePinRow
    \/ RefreshRead
    \/ RefreshLoop
    \/ CreateMemory
    \/ EditMemory

SpecPage == PageInit /\ [][PageNext]_vars

\* ----------------------------------------------------------------------
\* C22
\* ----------------------------------------------------------------------

C22_DeleteSteps == {"storageRemove", "mediaDelete", "memDelete", "count",
                    "pinDelete"}

C22_BlobsGone == pgFlow.paths \cap storageObjs = {}

C22_MediaGone == MediaPaths(mediaRows, pgFlow.mem) = {}

C22_MemoryGone == \A r \in memoryRows : r.id # pgFlow.mem

\* deleteMemory has returned without throwing: everything of the memory is
\* gone, and so is the pin of a place left without memories
C22_State ==
    (pgFlow.pc \in {"pinsRead", "pinsLoop"} /\ pgFlow.kind = "delete") =>
        /\ C22_BlobsGone
        /\ C22_MediaGone
        /\ C22_MemoryGone
        /\ (pgFlow.place # NoPlace /\ MemoriesAt(memoryRows, pgFlow.place) = {})
              => pgFlow.place \notin PinnedPlaces(userPlaces)

\* the order of the removals, and the pin list after the refresh
C22_Step ==
    /\ (pgFlow.pc \in C22_DeleteSteps /\ pgFlow'.pc # "idle") =>
          /\ storageObjs' # storageObjs =>
                /\ pgFlow.pc = "storageRemove"
                /\ mediaRows' = mediaRows /\ memoryRows' = memoryRows
          /\ mediaRows' # mediaRows =>
                /\ C22_BlobsGone
                /\ memoryRows' = memoryRows
          /\ memoryRows' # memoryRows => C22_BlobsGone /\ C22_MediaGone
          /\ userPlaces' # userPlaces =>
                /\ C22_MemoryGone
                /\ MemoriesAt(memoryRows, pgFlow.place) = {}
    /\ (pgFlow.pc = "pinsLoop" /\ pgFlow.kind = "delete" /\ pgFlow'.pc = "idle") =>
          \A i \in DOMAIN pgPins' : MemoriesAt(memoryRows', pgPins'[i]) # {}

C23_SamePlace(d, e) ==
    /\ ToLowerCase(Trim(d.city)) = ToLowerCase(Trim(e.city))
    /\ ToLowerCase(Trim(d.region)) = ToLowerCase(Trim(e.region))

\* the drafts of the run in flight that have a memories row, with the row
C23_Resolved ==
    UNION {{<<handler.drafts[i], r>> :
               r \in {x \in memoryRows : x.run = handler.run
                                         /\ x.key = handler.drafts[i].key}}
              : i \in DOMAIN handler.drafts}

C23_State ==
    /\ \A p, q \in places : p.normalized_key = q.normalized_key => p = q
    /\ \A u, v \in userPlaces :
          (u.user_id = v.user_id /\ u.place_id = v.place_id) => u = v
    /\ \A r \in memoryRows :
          Cardinality({u \in userPlaces : u.user_id = r.user_id
                                          /\ u.place_id = r.place_id}) = 1
    /\ handler.pc # "idle" /\ handler.pc \in {"placeFind", "placeInsert", "pin",
                                               "memory", "upload", "media"} =>
          \A a, b \in C23_Resolved :
              C23_SamePlace(a[1], b[1]) => a[2].place_id = b[2].place_id

C23_Step ==
    /\ places' # places =>
          /\ handler.pc = "placeInsert"
          /\ \A p \in places : p.normalized_key # CurPlaceKey
          /\ Cardinality(places') = Cardinality(places) + 1
    /\ (handler.pc \in {"placeFind", "placeInsert"} /\ handler'.pc = "pin") =>
          \E p \in places' :
              /\ p.id = handler'.placeId
              /\ p.normalized_key = CurPlaceKey
              /\ \A q \in places' : q.normalized_key = CurPlaceKey => q = p

\* C23: within handleFinish, drafts whose city and region differ only in
\* letter case or surrounding whitespace resolve to the same place id;
\* ensurePlace inserts a place row only when no row with the normalized key
\* exists, so there is at most one place row per normalized key, and the
\* user_places upsert leaves exactly one pin row per (user, place) pair
\* however many drafts name that place.
C23_OnePlacePerKey == [](C23_State) /\ [][C23_Step]_vars

C23_Witness ==
    /\ handler.pc = "media"
    /\ Cardinality(places) = 1
    /\ Cardinality(userPlaces) = 1
    /\ \E a, b \in C23_Resolved :
          /\ a[1].city # b[1].city
          /\ C23_SamePlace(a[1], b[1])
          /\ a[2].id # b[2].id
          /\ a[2].place_id = b[2].place_id

\* ----------------------------------------------------------------------
\* C24
\* ----------------------------------------------------------------------

\* the timer of a check fires, its query resolves or rejects, and the remote
\* call a step handler awaits resolves or rejects
CheckFairness ==
    /\ WF_vars(SlugTimerFires)
    /\ WF_vars(SlugQueryResolves)
    /\ WF_vars(UpsertProfileResolves)

\* the slugs typed on step 2: one no profile holds, one another profile
\* holds
CheckSlugs == {<<"a", "b", "d">>, <<"a", "b", "c">>}

TypeCheckSlug == TypeShareSlug(CheckSlugs)

CheckNext ==
    \/ TypeCheckSlug
    \/ SlugTimerFires
    \/ SlugQueryResolves
    \/ HandleSaveProfileAndNext
    \/ UpsertProfileResolves
    \/ Back

\* step 2 with the slug check, and the step-2 save
SpecCheck == SlugInit /\ [][CheckNext]_vars

SpecCheckLive == SpecCheck /\ CheckFairness

C24_Settled == slugStatus \in {"available", "taken"}

\* a slug edit to a text with a normalized form of 3 characters or more
\* sets 'checking'; the check that settles the status of the current text
\* sets 'taken' exactly when its query succeeded and found the slug
C24_Step ==
    /\ (shareSlug' # shareSlug /\ step = 2
            /\ ~SlugTooShort(normalizeSlug(shareSlug'))) =>
          slugStatus' = "checking"
    /\ \A c \in checks, failed \in BOOLEAN :
          (SlugQueryResolvesWith(c, failed) /\ ~c.cancelled) =>
              /\ C24_Settled'
              /\ slugStatus' = "taken" <=>
                    (~failed /\ \E q \in profiles : q.share_slug = c.norm)

C24_StatusWritten == [][C24_Step]_vars

\* C24: for a slug text whose normalized form has at least 3 characters and
\* that is not edited again, slugStatus, once 'checking', becomes
\* 'available' or 'taken' and does not stay 'checking' forever.
C24_Settles ==
    \A t \in CheckSlugs :
        (shareSlug = t /\ slugStatus = "checking")
            ~> (shareSlug # t \/ C24_Settled)

\* the same, for the effect whose dependencies are [shareSlug,
\* normalizedSlug] only
C24_SettlesWithoutStepDep == (rev = 1) => C24_Settles

C24_StuckChecking ==
    /\ rev = 2
    /\ step = 3
    /\ slugStatus = "checking"
    /\ \A c \in checks : c.cancelled

\* ----------------------------------------------------------------------
\* C25
\* ----------------------------------------------------------------------

\* no fetchMemoriesForPin is awaiting and no handler is in flight
C25_Quiet == pgFetches = {} /\ pgFlow.pc = "idle"

\* C25: once every in-flight fetchMemoriesForPin has resolved, the memory
\* cards shown are the ones fetched for the currently active pin.
C25_CardsOfActivePin == C25_Quiet => pgCardsFor = pgActive

\* two selections whose responses arrived in the opposite order
C25_LateResponse ==
    /\ C25_Quiet
    /\ pgClicks = 2
    /\ pgActive \in SeqToSet(pgPins)
    /\ pgCardsFor \in SeqToSet(pgPins) \ {pgActive}
    /\ pgCards = {r.id : r \in MemoriesAt(memoryRows, pgCardsFor)}
    /\ pgCards # {r.id : r \in MemoriesAt(memoryRows, pgActive)}
    /\ userPlaces = {[user_id |-> profileId, place_id |-> pl, label |-> None]
                        : pl \in PagePlaceIds}

\* ----------------------------------------------------------------------
\* C26
\* ----------------------------------------------------------------------

\* the wizard on step 2 with name and city filled in and one complete
\* draft waiting for step 3
RedirectInit ==
    /\ rev \in {1, 2}
    /\ step = 2
    /\ loading = FALSE
    /\ error = None
    /\ uid = "u1"
    /\ email = <<"a">>
    /\ password = <<"a">>
    /\ fullName = <<"a">>
    /\ shareSlug = <<>>
    /\ homeCity = <<"a">>
    /\ avatarFile = FALSE
    /\ memories = <<DraftOf(1, <<<<"a">>, TRUE, TRUE, <<"d">>>>)>>
    /\ slugStatus = "idle"
    /\ checks = {}
    /\ slugWrittenBy = NoWriter
    /\ handler = IdleHandler
    /\ profiles = {OtherProfile}
    /\ places = {}
    /\ userPlaces = {}
    /\ memoryRows = {}
    /\ storageObjs = {}
    /\ mediaRows = {}
    /\ callLog = <<>>
    /\ redirected = None
    /\ NfIdle
    /\ MapIdle
    /\ PageIdle
    /\ EpIdle

RedirectNext ==
    \/ TypeCheckSlug
    \/ SlugTimerFires
    \/ SlugQueryResolves
    \/ HandleSaveProfileAndNext
    \/ UpsertProfileResolves
    \/ HandleFinish
    \/ PlaceFindResolves
    \/ PlaceInsertResolves
    \/ PinUpsertResolves
    \/ MemoryInsertResolves
    \/ UploadResolves
    \/ MediaInsertResolves

\* steps 2 and 3 of the wizard, up to the redirect
SpecRedirect == RedirectInit /\ [][RedirectNext]_vars

\* C26: when handleFinish succeeds, the path it redirects to is the share
\* slug stored by the last successful profile upsert of the session.
C26_RedirectsToStoredSlug ==
    redirected # None =>
        \E p \in profiles : p.id = uid /\ p.share_slug = redirected

\* the redirect goes to the slug typed while the step-2 save was in flight
C26_RedirectsElsewhere ==
    /\ redirected # None
    /\ redirected = normalizeSlug(shareSlug)
    /\ \E p \in profiles : p.id = uid /\ p.share_slug # redirected

\* ----------------------------------------------------------------------
\* C27
\* ----------------------------------------------------------------------

C27_MediaOf(r) == {m \in mediaRows : m.memory_id = r.id}

C27_PhotosOf(r) == {o \in storageObjs : o = StoragePath(r.user_id, r.id)}

\* C27: once handleFinish has returned, every memories row it inserted has
\* exactly one uploaded photo and exactly one memory_media record, also when
\* the run aborted on a failed write.
C27_NoMemoryWithoutMedia ==
    handler.pc = "idle" =>
        \A r \in memoryRows :
            /\ Cardinality(C27_PhotosOf(r)) = 1
            /\ Cardinality(C27_MediaOf(r)) = 1

\* a run that went through leaves each memory with its photo and record
C27_CompleteRunHasMedia ==
    redirected # None =>
        \A r \in {x \in memoryRows : \A y \in memoryRows : y.run <= x.run} :
            /\ Cardinality(C27_PhotosOf(r)) = 1
            /\ Cardinality(C27_MediaOf(r)) = 1

\* the run aborted on the upload: the memory row has neither photo nor record
C27_OrphanMemory ==
    /\ handler.pc = "idle"
    /\ error = "upload error"
    /\ \E r \in memoryRows : C27_PhotosOf(r) = {} /\ C27_MediaOf(r) = {}

\* ----------------------------------------------------------------------
\* C28
\* ----------------------------------------------------------------------

\* C28: at the first render and whenever no handler is in flight,
\* activePinId is undefined or the id of a pin in the current pin list.
C28_ActiveInList ==
    pgFlow.pc = "idle" =>
        (pgActive = NoPlace \/ pgActive \in SeqToSet(pgPins))

\* the same on a database in which every place has numeric coordinates
C28_ActiveInListWithCoords ==
    (\A p \in places : p.hasCoords) => C28_ActiveInList

\* first render: the first pin row is a place without lat and lng
C28_FirstRender ==
    /\ pgClicks = 0
    /\ pgFlow.pc = "idle"
    /\ pgActive # NoPlace
    /\ pgActive \notin SeqToSet(pgPins)

\* ======================================================================
\* Two clients in ensurePlace: src/worldmap/lib/places.ts and
\* src/worldmap/app/signup/page.tsx (select, then insert) and
\* AddMemoryModal of src/unnamed/part_002 (select, insert, re-select)
\* ======================================================================

EpClientIds == {1, 2}

\* which ensurePlace a client runs
EpVariants == {"lib", "modal"}

\* the city each client passes; the region is the same
EpCities == {<<"a">>, <<"A", " ">>, <<"b">>}

EpKey(city) == normalizePlaceKey(city, <<"x">>)

EpClient(variant, city) ==
    [pc |-> "find", variant |-> variant, key |-> EpKey(city), id |-> 0,
     err |-> "none"]

EpFrame ==
    <<rev, nfVars, mapVars, pageVars, step, loading, error, uid, email,
      password, fullName, shareSlug, homeCity, avatarFile, memories,
      slugStatus, checks, slugWrittenBy, handler, profiles, callLog,
      redirected, userPlaces, memoryRows, storageObjs, mediaRows, epUnique>>

\* two clients have called ensurePlace on an empty places table; the
\* schema has the unique index or not
EpInit ==
    /\ rev = 1
    /\ WizMount
    /\ NfIdle
    /\ MapIdle
    /\ PageIdle
    /\ epUnique \in BOOLEAN
    /\ epClients \in [EpClientIds ->
           {EpClient(v, c) : v \in EpVariants, c \in EpCities}]

EpRows(key) == {p \in places : p.normalized_key = key}

EpSet(c, pc, id, err) ==
    epClients' = [epClients EXCEPT ![c] = [@ EXCEPT !.pc = pc, !.id = id,
                                                     !.err = err]]

\* .select("id").eq("normalized_key", normalized_key).maybeSingle() resolves:
\* an error (also when several rows match) is thrown, a row found is
\* returned, otherwise the insert is issued
EpFind(c) ==
    /\ epClients[c].pc = "find"
    /\ \/ EpSet(c, "threw", 0, "network")
       \/ /\ Cardinality(EpRows(epClients[c].key)) > 1
          /\ EpSet(c, "threw", 0, "several rows")
       \/ \E p \in EpRows(epClients[c].key) :
            /\ Cardinality(EpRows(epClients[c].key)) = 1
            /\ EpSet(c, "returned", p.id, "none")
       \/ /\ EpRows(epClients[c].key) = {}
          /\ EpSet(c, "insert", 0, "none")
    /\ UNCHANGED <<EpFrame, places>>

\* the insert is rejected by the unique index
EpConflict(key) == epUnique /\ EpRows(key) # {}

\* what ensurePlace does with a rejected insert: lib/places.ts and the
\* signup page throw, AddMemoryModal selects again
EpAfterReject(variant) == IF variant = "modal" THEN "retry" ELSE "threw"

\* .insert([{ ..., normalized_key }]).select("id").single() resolves
EpInsert(c) ==
    /\ epClients[c].pc = "insert"
    /\ IF EpConflict(epClients[c].key)
       THEN /\ EpSet(c, EpAfterReject(epClients[c].variant), 0, "conflict")
            /\ UNCHANGED places
       ELSE /\ places' = places \cup
                  {[id |-> Cardinality(places) + 1,
                    normalized_key |-> epClients[c].key]}
            /\ EpSet(c, "returned", Cardinality(places) + 1, "none")
    /\ UNCHANGED EpFrame

\* AddMemoryModal: the re-select after createErr
EpRetry(c) ==
    /\ epClients[c].pc = "retry"
    /\ \/ EpSet(c, "threw", 0, "network")
       \/ /\ Cardinality(EpRows(epClients[c].key)) # 1
          /\ EpSet(c, "threw", 0, "conflict")
       \/ \E p \in EpRows(epClients[c].key) :
            /\ Cardinality(EpRows(epClients[c].key)) = 1
            /\ EpSet(c, "returned", p.id, "conflict")
    /\ UNCHANGED <<EpFrame, places>>

EpNext ==
    \/ \E c \in EpClientIds : EpFind(c)
    \/ \E c \in EpClientIds : EpInsert(c)
    \/ \E c \in EpClientIds : EpRetry(c)

SpecPlaces == EpInit /\ [][EpNext]_vars

\* ----------------------------------------------------------------------
\* C29
\* ----------------------------------------------------------------------

EpFinished(c) == epClients[c].pc \in {"returned", "threw"}

\* both clients ran for one key and have finished, no call failed for a
\* reason other than the race, and the rows of the key are theirs
C29_Raced ==
    /\ epClients[1].key = epClients[2].key
    /\ \A c \in EpClientIds :
          /\ EpFinished(c)
          /\ epClients[c].err \in {"none", "conflict"}
    /\ \A p \in EpRows(epClients[1].key) :
          \E c \in EpClientIds : epClients[c].id = p.id

\* C29: two clients ran ensurePlace concurrently for the same normalized key
\* while no row with that key existed: after both have finished exactly one
\* place row with that key exists and both calls returned its id.
C29_OneRowBothReturnIt ==
    C29_Raced =>
        \E p \in places :
            /\ EpRows(epClients[1].key) = {p}
            /\ \A c \in EpClientIds :
                  epClients[c].pc = "returned" /\ epClients[c].id = p.id

\* without the unique index both inserts succeed
C29_TwoRows ==
    /\ ~epUnique
    /\ \A c \in EpClientIds : epClients[c].pc = "returned"
    /\ epClients[1].key = epClients[2].key
    /\ Cardinality(EpRows(epClients[1].key)) = 2

\* with the unique index the second insert is rejected and thrown
C29_OneThrows ==
    /\ epUnique
    /\ epClients[1].key = epClients[2].key
    /\ \E c \in EpClientIds :
          epClients[c].pc = "threw" /\ epClients[c].err = "conflict"
    /\ \E c \in EpClientIds : epClients[c].pc = "returned"

\* with the unique index, two clients of AddMemoryModal end with one row
\* that both returned
C29_ModalWithIndex ==
    (epUnique /\ \A c \in EpClientIds : epClients[c].variant = "modal")
        => C29_OneRowBothReturnIt

\* ----------------------------------------------------------------------
\* C30
\* ----------------------------------------------------------------------

\* the user_places read of refreshPins fails in the handler of this kind
C30_FailedRead(kind) ==
    /\ pgFlow.pc = "pinsRead"
    /\ pgFlow.kind = kind
    /\ RefreshReadWith(FALSE)

C30_PageKept ==
    /\ pgPins' = pgPins
    /\ pgActive' = pgActive
    /\ pgCards' = pgCards

\* C30: if refreshPins fails to read the user's pins, the pin list, the
\* active pin id and the displayed memories are left as they were, in the
\* pins-changed handler and in the delete handler.
C30_FailedRefreshKeepsPage ==
    [][(C30_FailedRead("changed") \/ C30_FailedRead("delete"))
           => C30_PageKept]_vars

\* the part that holds: the pin list is not replaced
C30_PinListKept ==
    [][(C30_FailedRead("changed") \/ C30_FailedRead("delete"))
           => pgPins' = pgPins]_vars

C30_KeptInPinsChanged ==
    [][C30_FailedRead("changed") => C30_PageKept]_vars

C30_KeptInDelete ==
    [][C30_FailedRead("delete") => C30_PageKept]_vars
====
